---- MODULE Spec2Model ----
(***************************************************************************)
(* Model of aws-samples/sample-blockchain-data-agent.                      *)
(*                                                                         *)
(*  - SpecDeploy : deploy_blockchain_agent.py, main() and the step         *)
(*                 functions it calls, with the cloud SDK / subprocess     *)
(*                 outcomes chosen by the environment.                     *)
(*  - SpecDeployLive : SpecDeploy with the polling loop of                 *)
(*                 wait_for_agent_ready running on (weak fairness).        *)
(*  - SpecChat   : invoke_agent_async.py, AgentChat.stream_response and    *)
(*                 AgentChat._format_tool_call over a stream of lines.     *)
(*  - SpecAgent  : blockchain_agent_agentcore.py, the module load         *)
(*                 (initialize_blockchain_agent) and the invoke_streaming  *)
(*                 and invoke_sync entry points serving several requests   *)
(*                 against the module-global agent and mcp_client.         *)
(*  - SpecName   : deploy_blockchain_agent.py, main(): the --agent-name    *)
(*                 argument as it is fixed and handed to the deployment.   *)
(*  - SpecClient : invoke_agent_async.py, main(), AgentChat.__init__ with  *)
(*                 _get_agent_arn, and the turns of chat_loop, each send   *)
(*                 running stream_response on its response.                *)
(*  - SpecTools  : utils/mcp_utils.py, get_tool_names over a list of tool  *)
(*                 objects.                                                *)
(*  - SpecSessions : test_agent of deploy_blockchain_agent.py and one     *)
(*                 AgentChat of invoke_agent_async.py, the two places      *)
(*                 that draw a runtimeSessionId.                           *)
(*  - SpecRerun  : deploy_blockchain_agent.py, the steps                   *)
(*                 update_policy_with_dynamic_bucket and                   *)
(*                 create_ecr_repository called again and again on the     *)
(*                 same account and the same policy file.                  *)
(***************************************************************************)
EXTENDS Integers, Sequences, FiniteSets, TLC

VARIABLES
    \* ---- deploy_blockchain_agent.py ----
    pc,           \* position in main()
    invoked,      \* step functions called by main(), in call order
    result,       \* what each step reported: "none" | "ok" | "fail"
    calls,        \* external calls issued (SDK / subprocess) with outcome
    exitCode,     \* -1 while running, else the process exit status
    banner,       \* TRUE once "Deployment Complete!" was printed
    skipTest,     \* args.skip_test
    roleExists,   \* IAM: AgentCoreDataProcessingRole exists
    repoExists,   \* ECR: the repository exists
    policyFile,   \* agentcore_iam_policy.json, as a sequence of tokens
    bucketLookup, \* outcome of the bucket search: "none"|"found"|"missing"|"error"
    putDocs,      \* policy documents sent with put_role_policy
    createdRepos, \* number of create_repository calls that succeeded
    roleArn, repositoryUri, imageUri, agentId, agentArn,  \* main()'s locals
    elapsed,      \* wait_for_agent_ready: loop variable
    chunkCount, completeResponse,  \* test_agent: chunk_count, complete_response
    targetPage,   \* listing page holding the runtime named agent_name when
                  \* create_agent_runtime reported a conflict, else 0
    testSessionId, \* test_agent: session_id, a sequence of characters
    testStream,   \* test_agent: the chunks response['response'] handed out
    \* ---- invoke_agent_async.py, AgentChat.stream_response ----
    chatPc,        \* "start" | "streaming" | "returned" | "returned_none" |
                   \* "raised" | "interrupted"
    stream,        \* the lines response["response"].iter_lines() will give
    pos,           \* number of lines consumed
    in_tool_call,  \* stream_response's local flag
    tool_buffer,   \* stream_response's local buffer, a sequence of tokens
    complete_text, \* stream_response's local accumulator
    console,       \* what the client printed, in order: <<kind, tokens>>
    fates,         \* how each token of a consumed chunk was treated
    \* ---- blockchain_agent_agentcore.py ----
    rpc,           \* per request: position of its handler: "idle" |
                   \* "arrived" | "waiting" | "streaming" | "at_error" |
                   \* "running" | "done" | "abandoned" | "closed"
    kind,          \* per request: "stream" (invoke_streaming) | "sync" (invoke_sync)
    prompt,        \* per request: payload.get("prompt", "")
    yielded,       \* per request: events handed to the caller, in order
    produced,      \* per request: events agent.stream_async / agent() gave
    agentRaised,   \* per request: the agent raised while serving it
    entered,       \* per request: it has entered "with mcp_client:"
    mcpSession,    \* the global mcp_client: the requests inside "with mcp_client"
    agentLoaded,   \* module load: "loading" | "ready" | "failed"
    \* ---- deploy_blockchain_agent.py, main(): the agent name ----
    namePc,          \* "parsed" | "fixed" | "deploying"
    original_name,   \* args.agent_name as given, a sequence of characters
    args_agent_name, \* args.agent_name
    passedName,      \* first argument of deploy_to_agentcore
    \* ---- invoke_agent_async.py, AgentChat.__init__ and chat_loop ----
    clientPc,          \* "main" | "start" | "ready" | "sending" | "exited"
    chat_agent_name,   \* args.agent_name of the client's main()
    regionRuntimes,    \* the region's runtime listing, a sequence of pages
    agent_runtime_arn, \* self.agent_runtime_arn
    clientCalls,       \* SDK calls issued by the client, with outcome
    clientExit,        \* -1 while running, else the process exit status
    clientWarned,      \* the 'status is not ACTIVE or READY' warning was printed
    turns,             \* inputs chat_loop has read
    session_id,        \* self.session_id, a sequence of characters
    inputs,            \* what input() gave chat_loop, in order
    sent,              \* <<runtimeSessionId, prompt>> of each request sent
    \* ---- utils/mcp_utils.py, get_tool_names ----
    toolPc,            \* "called" | "returned"
    tools,             \* the argument, a sequence of tool objects
    tool_names,        \* the list returned
    \* ---- deploy_blockchain_agent.py run again on the same account ----
    rerunPc,           \* "running" while the script may be run again
    accountBuckets,    \* the account's bucket names, in listing order
    runs               \* per call of a step: <<step, outcome, file before,
                       \* file after>>

deployVars == <<pc, invoked, result, calls, exitCode, banner, skipTest,
                roleExists, repoExists, policyFile, bucketLookup, putDocs,
                createdRepos, roleArn, repositoryUri, imageUri, agentId,
                agentArn, elapsed, chunkCount, completeResponse, targetPage,
                testSessionId, testStream>>

chatVars == <<chatPc, stream, pos, in_tool_call, tool_buffer, complete_text,
              console, fates>>

agentVars == <<rpc, kind, prompt, yielded, produced, agentRaised, entered,
               mcpSession, agentLoaded>>

nameVars == <<namePc, original_name, args_agent_name, passedName>>

clientVars == <<clientPc, chat_agent_name, regionRuntimes, agent_runtime_arn,
                clientCalls, clientExit, clientWarned, turns, session_id,
                inputs, sent>>

toolVars == <<toolPc, tools, tool_names>>

rerunVars == <<rerunPc, accountBuckets, runs>>

vars == <<deployVars, chatVars, agentVars, nameVars, clientVars, toolVars,
          rerunVars>>

----------------------------------------------------------------------------
(* Bounds *)
MaxMinutes    == 1   \* max_minutes given to wait_for_agent_ready
MaxBuckets    == 2   \* buckets returned by list_buckets
MaxPages      == 3   \* pages of the agent runtime listing

None == "None"

SeqsUpTo(S, n) == UNION {[1..k -> S] : k \in 0..n}

\* an external call: <<what was called, its argument, its outcome>>
Call(name, outcome) == <<name, "", outcome>>
CallArg(name, arg, outcome) == <<name, arg, outcome>>

OkFail == {"ok", "fail"}

----------------------------------------------------------------------------
(* The step functions of deploy_blockchain_agent.py.  Each takes the       *)
(* outcomes the environment gives to its external calls and returns the    *)
(* calls it issued and what it returned.                                   *)

Steps == <<"check_prerequisites", "update_policy_with_dynamic_bucket",
           "ensure_iam_role_exists", "create_ecr_repository",
           "build_and_push_docker_image", "deploy_to_agentcore",
           "wait_for_agent_ready", "test_agent">>

StepSet == {Steps[i] : i \in 1..Len(Steps)}

\* check_prerequisites(): o[1] aws --version, o[2] aws sts get-caller-identity,
\* o[3] docker --version, o[4] docker buildx version, o[5] docker buildx create
check_prerequisites(o) ==
    IF o[1] = "fail" THEN
        [calls |-> <<Call("aws --version", "fail")>>, ret |-> FALSE]
    ELSE IF o[2] = "fail" THEN
        [calls |-> <<Call("aws --version", "ok"),
                     Call("aws sts get-caller-identity", "fail")>>,
         ret |-> FALSE]
    ELSE IF o[3] = "fail" THEN
        [calls |-> <<Call("aws --version", "ok"),
                     Call("aws sts get-caller-identity", "ok"),
                     Call("docker --version", "fail")>>,
         ret |-> FALSE]
    ELSE IF o[4] = "ok" THEN
        [calls |-> <<Call("aws --version", "ok"),
                     Call("aws sts get-caller-identity", "ok"),
                     Call("docker --version", "ok"),
                     Call("docker buildx version", "ok")>>,
         ret |-> TRUE]
    ELSE
        [calls |-> <<Call("aws --version", "ok"),
                     Call("aws sts get-caller-identity", "ok"),
                     Call("docker --version", "ok"),
                     Call("docker buildx version", "fail"),
                     Call("docker buildx create --use", o[5])>>,
         ret |-> (o[5] = "ok")]

\* Bucket names the listing may contain, and the test
\* 'athenaresultsbucket' in b['Name'].lower()
BucketNames == {"app-logs", "stack-AthenaResultsBucket-1", "athenaresultsbucket-2"}

IsAthenaResultsBucket(name) ==
    name \in {"stack-AthenaResultsBucket-1", "athenaresultsbucket-2"}

Placeholder == "PLACEHOLDER_ATHENA_RESULTS_BUCKET"
FirstMatch_Last(buckets) ==
    LET idx == {i \in 1..Len(buckets) : IsAthenaResultsBucket(buckets[i])}
    IN IF idx = {} THEN None
       ELSE buckets[CHOOSE i \in idx : \A j \in idx : i >= j]

\* next((b['Name'] for b in buckets['Buckets'] if ...), None)
FirstMatch(buckets) ==
    LET idx == {i \in 1..Len(buckets) : IsAthenaResultsBucket(buckets[i])}
    IN IF idx = {} THEN None
       ELSE buckets[CHOOSE i \in idx : \A j \in idx : i <= j]

Replace_FirstOnly(text, target) ==
    [i \in 1..Len(text) |->
        IF text[i] = Placeholder /\ \A j \in 1..(i - 1) : text[j] # Placeholder
        THEN target ELSE text[i]]

\* policy_text.replace('PLACEHOLDER_ATHENA_RESULTS_BUCKET', target_bucket)
Replace(text, target) ==
    [i \in 1..Len(text) |-> IF text[i] = Placeholder THEN target ELSE text[i]]

update_policy_with_dynamic_bucket_Strict(list, listing, file) ==
    IF list = "fail" THEN
        [calls |-> <<Call("s3.list_buckets", "fail")>>, ret |-> FALSE,
         file |-> file, lookup |-> "error"]
    ELSE IF FirstMatch(listing) = None THEN
        [calls |-> <<Call("s3.list_buckets", "ok")>>, ret |-> FALSE,
         file |-> file, lookup |-> "missing"]
    ELSE
        [calls |-> <<Call("s3.list_buckets", "ok")>>, ret |-> TRUE,
         file |-> Replace(file, FirstMatch(listing)), lookup |-> "found"]

\* update_policy_with_dynamic_bucket(): list is the outcome of list_buckets,
\* listing the sequence of bucket names it returned.
update_policy_with_dynamic_bucket(list, listing, file) ==
    IF list = "fail" THEN
        [calls |-> <<Call("s3.list_buckets", "fail")>>, ret |-> TRUE,
         file |-> file, lookup |-> "error"]
    ELSE IF FirstMatch(listing) = None THEN
        [calls |-> <<Call("s3.list_buckets", "ok")>>, ret |-> TRUE,
         file |-> file, lookup |-> "missing"]
    ELSE
        [calls |-> <<Call("s3.list_buckets", "ok")>>, ret |-> TRUE,
         file |-> Replace(file, FirstMatch(listing)), lookup |-> "found"]

ensure_iam_role_exists_KeepsExistingRole(sts, get, create, put, exists, file) ==
    IF sts = "fail" THEN
        [calls |-> <<Call("sts.get_caller_identity", "fail")>>,
         ret |-> None, exists |-> exists, docs |-> <<>>]
    ELSE IF get = "fail" THEN
        [calls |-> <<Call("sts.get_caller_identity", "ok"),
                     Call("iam.get_role", "fail")>>,
         ret |-> None, exists |-> exists, docs |-> <<>>]
    ELSE IF exists THEN
        [calls |-> <<Call("sts.get_caller_identity", "ok"),
                     Call("iam.get_role", "ok")>>,
         ret |-> "role_arn", exists |-> exists, docs |-> <<>>]
    ELSE IF create = "fail" THEN
        [calls |-> <<Call("sts.get_caller_identity", "ok"),
                     Call("iam.get_role", "NoSuchEntity"),
                     Call("iam.create_role", "fail")>>,
         ret |-> None, exists |-> exists, docs |-> <<>>]
    ELSE
        [calls |-> <<Call("sts.get_caller_identity", "ok"),
                     Call("iam.get_role", "NoSuchEntity"),
                     Call("iam.create_role", "ok"),
                     Call("iam.put_role_policy", put)>>,
         ret |-> IF put = "ok" THEN "role_arn" ELSE None,
         exists |-> TRUE, docs |-> <<file>>]

\* ensure_iam_role_exists(): sts, get, create, put are the outcomes of
\* sts.get_caller_identity, iam.get_role, iam.create_role, iam.put_role_policy
ensure_iam_role_exists(sts, get, create, put, exists, file) ==
    IF sts = "fail" THEN
        [calls |-> <<Call("sts.get_caller_identity", "fail")>>,
         ret |-> None, exists |-> exists, docs |-> <<>>]
    ELSE IF get = "fail" THEN
        [calls |-> <<Call("sts.get_caller_identity", "ok"),
                     Call("iam.get_role", "fail")>>,
         ret |-> None, exists |-> exists, docs |-> <<>>]
    ELSE IF ~exists /\ create = "fail" THEN
        [calls |-> <<Call("sts.get_caller_identity", "ok"),
                     Call("iam.get_role", "NoSuchEntity"),
                     Call("iam.create_role", "fail")>>,
         ret |-> None, exists |-> exists, docs |-> <<>>]
    ELSE
        LET head == IF exists
                    THEN <<Call("sts.get_caller_identity", "ok"),
                           Call("iam.get_role", "ok")>>
                    ELSE <<Call("sts.get_caller_identity", "ok"),
                           Call("iam.get_role", "NoSuchEntity"),
                           Call("iam.create_role", "ok")>>
        IN [calls |-> Append(head, Call("iam.put_role_policy", put)),
            ret |-> IF put = "ok" THEN "role_arn" ELSE None,
            exists |-> TRUE, docs |-> <<file>>]
create_ecr_repository_AlwaysCreates(describe, create, exists) ==
    IF describe = "fail" THEN
        [calls |-> <<Call("ecr.describe_repositories", "fail")>>,
         ret |-> None, exists |-> exists, created |-> 0]
    ELSE IF create = "fail" THEN
        [calls |-> <<Call("ecr.describe_repositories", "ok"),
                     Call("ecr.create_repository", "fail")>>,
         ret |-> None, exists |-> exists, created |-> 0]
    ELSE
        [calls |-> <<Call("ecr.describe_repositories", "ok"),
                     Call("ecr.create_repository", "ok")>>,
         ret |-> "repo_uri", exists |-> TRUE, created |-> 1]

\* create_ecr_repository(): describe, create are the outcomes of
\* ecr.describe_repositories (when it does not report the repository missing)
\* and ecr.create_repository
create_ecr_repository(describe, create, exists) ==
    IF describe = "fail" THEN
        [calls |-> <<Call("ecr.describe_repositories", "fail")>>,
         ret |-> None, exists |-> exists, created |-> 0]
    ELSE IF exists THEN
        [calls |-> <<Call("ecr.describe_repositories", "ok")>>,
         ret |-> "repo_uri", exists |-> exists, created |-> 0]
    ELSE IF create = "fail" THEN
        [calls |-> <<Call("ecr.describe_repositories", "RepositoryNotFound"),
                     Call("ecr.create_repository", "fail")>>,
         ret |-> None, exists |-> exists, created |-> 0]
    ELSE
        [calls |-> <<Call("ecr.describe_repositories", "RepositoryNotFound"),
                     Call("ecr.create_repository", "ok")>>,
         ret |-> "repo_uri", exists |-> TRUE, created |-> 1]

build_and_push_docker_image_RetryLogin(o) ==
    IF o[1] = "fail" THEN
        [calls |-> <<Call("ecr.get_authorization_token", "fail")>>, ret |-> None]
    ELSE IF o[2] = "fail" THEN
        [calls |-> <<Call("ecr.get_authorization_token", "ok"),
                     Call("docker login", "fail"),
                     Call("docker login", o[3])>>, ret |-> None]
    ELSE
        [calls |-> <<Call("ecr.get_authorization_token", "ok"),
                     Call("docker login", "ok"),
                     Call("docker buildx build --push", o[3])>>,
         ret |-> IF o[3] = "ok" THEN "repo_uri:latest" ELSE None]

\* build_and_push_docker_image(): o[1] ecr.get_authorization_token,
\* o[2] docker login, o[3] docker buildx build --push
build_and_push_docker_image(o) ==
    IF o[1] = "fail" THEN
        [calls |-> <<Call("ecr.get_authorization_token", "fail")>>, ret |-> None]
    ELSE IF o[2] = "fail" THEN
        [calls |-> <<Call("ecr.get_authorization_token", "ok"),
                     Call("docker login", "fail")>>, ret |-> None]
    ELSE
        [calls |-> <<Call("ecr.get_authorization_token", "ok"),
                     Call("docker login", "ok"),
                     Call("docker buildx build --push", o[3])>>,
         ret |-> IF o[3] = "ok" THEN "repo_uri:latest" ELSE None]

\* The runtime listing: a sequence of pages, each a sequence of runtime
\* names; a page carries 'nextToken' when another page follows it.
AgentName == "blockchain_data_agent"
RuntimeNames == {AgentName, "other_agent"}
IdOf(name) == IF name = AgentName THEN "id_target" ELSE "id_other"
ArnOf(id) == IF id = "id_target" THEN "arn_target"
             ELSE IF id = "id_new" THEN "arn_new" ELSE "arn_other"

Pages == {<<>>} \cup {<<n>> : n \in RuntimeNames}
Listings == UNION {[1..k -> Pages] : k \in 1..MaxPages}

\* the first page of a listing that holds a runtime named name, 0 if none
PageOf(listing, name) ==
    IF \E k \in 1..Len(listing) : \E i \in 1..Len(listing[k]) :
            listing[k][i] = name
    THEN CHOOSE k \in 1..Len(listing) :
            /\ \E i \in 1..Len(listing[k]) : listing[k][i] = name
            /\ \A j \in 1..(k - 1) :
                  \A i \in 1..Len(listing[j]) : listing[j][i] # name
    ELSE 0

FindInPage_AnyRuntime(page, name) ==
    IF page # <<>> THEN IdOf(page[1]) ELSE None

\* for agent in agents: if agent.get('agentRuntimeName') == agent_name: ...
FindInPage(page, name) ==
    IF \E i \in 1..Len(page) : page[i] = name THEN IdOf(name) ELSE None

\* deploy_to_agentcore(): create is the outcome of create_agent_runtime,
\* l[1..3] those of the list_agent_runtimes calls, update that of
\* update_agent_runtime, listing what the account's listing holds.
deploy_to_agentcore(agent_name, create, l, update, listing) ==
    LET cCreate(x) == Call("create_agent_runtime", x)
        cList(x)   == Call("list_agent_runtimes", x)
        cNext(x)   == Call("list_agent_runtimes(nextToken)", x)
        cUpdate(id, x) == CallArg("update_agent_runtime", id, x)
        failed(cs) == [calls |-> cs, id |-> None, arn |-> None]
        id1 == FindInPage(listing[1], agent_name)
        more == Len(listing) >= 2
        id2 == IF id1 # None THEN id1
               ELSE IF more THEN FindInPage(listing[2], agent_name)
               ELSE None
        searched == IF id1 # None \/ ~more
                    THEN <<cCreate("conflict"), cList("ok")>>
                    ELSE <<cCreate("conflict"), cList("ok"), cNext("ok")>>
    IN
    IF create = "ok" THEN
        [calls |-> <<cCreate("ok")>>, id |-> "id_new", arn |-> ArnOf("id_new")]
    ELSE IF create = "fail" THEN
        failed(<<cCreate("fail")>>)
    ELSE IF l[1] = "fail" THEN
        failed(<<cCreate("conflict"), cList("fail")>>)
    ELSE IF id1 = None /\ more /\ l[2] = "fail" THEN
        failed(<<cCreate("conflict"), cList("ok"), cNext("fail")>>)
    ELSE IF id2 = None THEN
        \* "Available agents": listed once more, then raise Exception(...)
        failed(Append(searched, cList(l[3])))
    ELSE IF update = "fail" THEN
        failed(Append(searched, cUpdate(id2, "fail")))
    ELSE
        [calls |-> Append(searched, cUpdate(id2, "ok")),
         id |-> id2, arn |-> ArnOf(id2)]

\* One pass of wait_for_agent_ready's loop body: status is what
\* get_agent_runtime returned, or "error" when the call raised.
ReadyStatuses  == {"ACTIVE", "READY"}
FailedStatuses == {"FAILED", "STOPPED", "DELETING"}
PollOutcomes   == ReadyStatuses \cup FailedStatuses \cup {"CREATING", "error"}

PollVerdict_StoppedKeepsPolling(status) ==
    IF status = "error" THEN "again"
    ELSE IF status \in ReadyStatuses THEN "ready"
    ELSE IF status \in FailedStatuses \ {"STOPPED"} THEN "failed"
    ELSE "again"

\* what wait_for_agent_ready does with the outcome of one status poll
PollVerdict(status) ==
    IF status = "error" THEN "again"
    ELSE IF status \in ReadyStatuses THEN "ready"
    ELSE IF status \in FailedStatuses THEN "failed"
    ELSE "again"

\* uuid.uuid4() as str() prints it: 32 hexadecimal digits in groups of
\* 8-4-4-4-12 joined by hyphens
Uuids ==
    { <<"1","b","9","d","6","b","c","d", "-", "b","b","f","d", "-",
        "4","b","2","d", "-", "9","b","5","d", "-",
        "a","b","8","d","f","b","b","d","4","b","e","d">>,
      <<"6","e","c","0","b","d","7","f", "-", "1","1","c","0", "-",
        "4","3","d","a", "-", "9","7","5","e", "-",
        "2","a","8","a","d","9","e","b","a","e","0","b">> }

\* text[:n]
Prefix(text, n) == SubSeq(text, 1, IF n < Len(text) THEN n ELSE Len(text))

\* test_agent: session_id = str(uuid.uuid4()) + str(uuid.uuid4())[:5]
TestSuffixLen == 5

TestSessionId(u1, u2) == u1 \o Prefix(u2, TestSuffixLen)

\* test_agent(): invoke is the outcome of invoke_agent_runtime, chunks the
\* response stream, broken is TRUE when reading the stream raises after the
\* last chunk given.  A chunk is <<kind, text>>: "bytes" is a bytes object
\* that is valid UTF-8 on its own, "partial" a bytes object that begins or
\* ends inside a multi-byte character, "other" an object that is not bytes.
TestStreams == { <<>>,
                 <<<<"bytes", "x">>>>,
                 <<<<"bytes", "x">>, <<"bytes", "y">>>>,
                 <<<<"bytes", "y">>, <<"other", "z">>, <<"bytes", "x">>>>,
                 <<<<"bytes", "caf">>, <<"partial", "C3">>,
                   <<"partial", "A9">>>> }

\* the chunks up to and including the first one chunk.decode('utf-8')
\* raises on; all of them when it raises on none
RECURSIVE Consumed(_)
Consumed(chunks) ==
    IF chunks = <<>> THEN <<>>
    ELSE IF chunks[1][1] = "partial" THEN <<chunks[1]>>
    ELSE <<chunks[1]>> \o Consumed(Tail(chunks))

\* complete_response += chunk.decode('utf-8'), for the bytes chunks
RECURSIVE Decoded(_)
Decoded(chunks) ==
    IF chunks = <<>> THEN <<>>
    ELSE IF chunks[1][1] = "bytes"
         THEN <<chunks[1][2]>> \o Decoded(Tail(chunks))
         ELSE Decoded(Tail(chunks))

test_agent(invoke, chunks, broken) ==
    IF invoke = "fail" THEN
        [calls |-> <<Call("invoke_agent_runtime", "fail")>>, ret |-> FALSE,
         count |-> 0, response |-> <<>>]
    ELSE
        LET read == Consumed(chunks)
            raised == \E k \in 1..Len(read) : read[k][1] = "partial"
        IN [calls |-> <<Call("invoke_agent_runtime", "ok")>>,
            ret |-> ~broken /\ ~raised,
            count |-> Len(read), response |-> Decoded(read)]

----------------------------------------------------------------------------
(* main() of deploy_blockchain_agent.py: one action per step it calls,     *)
(* together with main's check of what the step returned.                   *)

PolicyFiles == {<<"arn:aws:s3:::", Placeholder, "arn:aws:s3:::", Placeholder, "/*">>,
                <<"arn:aws:s3:::", "athenaresultsbucket-2", "/*">>}

Report(ok) == IF ok THEN "ok" ELSE "fail"

\* sys.exit(1)
Exit1_StatusZero == pc' = "exited" /\ exitCode' = 0 /\ UNCHANGED banner

Exit1 == pc' = "exited" /\ exitCode' = 1 /\ UNCHANGED banner

\* main()'s check after a step:  if not <value>: sys.exit(1)
Proceed_NeverExits(failed, next) ==
    pc' = next /\ UNCHANGED <<exitCode, banner>>

Proceed(failed, next) ==
    IF failed THEN Exit1 ELSE pc' = next /\ UNCHANGED <<exitCode, banner>>

\* print("Deployment Complete!") ... and main() returns
Complete == pc' = "exited" /\ exitCode' = 0 /\ banner' = TRUE

\* if not check_prerequisites(): sys.exit(1)
MainCheckPrerequisites ==
    /\ pc = "check_prerequisites"
    /\ UNCHANGED <<chatVars, agentVars, nameVars, clientVars, toolVars,
                 rerunVars, targetPage, testSessionId, testStream>>
    /\ \E o \in [1..5 -> OkFail] :
         LET r == check_prerequisites(o) IN
         /\ invoked' = Append(invoked, "check_prerequisites")
         /\ calls' = calls \o r.calls
         /\ result' = [result EXCEPT !["check_prerequisites"] = Report(r.ret)]
         /\ Proceed(~r.ret, "update_policy")
    /\ UNCHANGED <<skipTest, roleExists, repoExists, policyFile, bucketLookup,
                   putDocs, createdRepos, roleArn, repositoryUri, imageUri,
                   agentId, agentArn, elapsed, chunkCount, completeResponse>>

\* update_policy_with_dynamic_bucket()   (the value returned is not used)
MainUpdatePolicy ==
    /\ pc = "update_policy"
    /\ UNCHANGED <<chatVars, agentVars, nameVars, clientVars, toolVars,
                 rerunVars, targetPage, testSessionId, testStream>>
    /\ \E list \in OkFail, listing \in SeqsUpTo(BucketNames, MaxBuckets) :
         LET r == update_policy_with_dynamic_bucket(list, listing, policyFile) IN
         /\ invoked' = Append(invoked, "update_policy_with_dynamic_bucket")
         /\ calls' = calls \o r.calls
         /\ result' = [result EXCEPT
                         !["update_policy_with_dynamic_bucket"] = Report(r.ret)]
         /\ policyFile' = r.file
         /\ bucketLookup' = r.lookup
         /\ pc' = "ensure_iam"
    /\ UNCHANGED <<exitCode, banner, skipTest, roleExists, repoExists, putDocs,
                   createdRepos, roleArn, repositoryUri, imageUri, agentId,
                   agentArn, elapsed, chunkCount, completeResponse>>

\* role_arn = ensure_iam_role_exists(); if not role_arn: sys.exit(1)
MainEnsureIamRole ==
    /\ pc = "ensure_iam"
    /\ UNCHANGED <<chatVars, agentVars, nameVars, clientVars, toolVars,
                 rerunVars, targetPage, testSessionId, testStream>>
    /\ \E sts \in OkFail, get \in OkFail, create \in OkFail, put \in OkFail :
         LET r == ensure_iam_role_exists(sts, get, create, put,
                                         roleExists, policyFile) IN
         /\ invoked' = Append(invoked, "ensure_iam_role_exists")
         /\ calls' = calls \o r.calls
         /\ result' = [result EXCEPT
                         !["ensure_iam_role_exists"] = Report(r.ret # None)]
         /\ roleExists' = r.exists
         /\ putDocs' = putDocs \o r.docs
         /\ roleArn' = r.ret
         /\ Proceed(r.ret = None, "ecr")
    /\ UNCHANGED <<skipTest, repoExists, policyFile, bucketLookup, createdRepos,
                   repositoryUri, imageUri, agentId, agentArn, elapsed,
                   chunkCount, completeResponse>>

\* repository_uri = create_ecr_repository(...); if not repository_uri: sys.exit(1)
MainCreateEcrRepository ==
    /\ pc = "ecr"
    /\ UNCHANGED <<chatVars, agentVars, nameVars, clientVars, toolVars,
                 rerunVars, targetPage, testSessionId, testStream>>
    /\ \E describe \in OkFail, create \in OkFail :
         LET r == create_ecr_repository(describe, create, repoExists) IN
         /\ invoked' = Append(invoked, "create_ecr_repository")
         /\ calls' = calls \o r.calls
         /\ result' = [result EXCEPT
                         !["create_ecr_repository"] = Report(r.ret # None)]
         /\ repoExists' = r.exists
         /\ createdRepos' = createdRepos + r.created
         /\ repositoryUri' = r.ret
         /\ Proceed(r.ret = None, "build")
    /\ UNCHANGED <<skipTest, roleExists, policyFile, bucketLookup, putDocs,
                   roleArn, imageUri, agentId, agentArn, elapsed, chunkCount,
                   completeResponse>>

\* image_uri = build_and_push_docker_image(...); if not image_uri: sys.exit(1)
MainBuildAndPush ==
    /\ pc = "build"
    /\ UNCHANGED <<chatVars, agentVars, nameVars, clientVars, toolVars,
                 rerunVars, targetPage, testSessionId, testStream>>
    /\ \E o \in [1..3 -> OkFail] :
         LET r == build_and_push_docker_image(o) IN
         /\ invoked' = Append(invoked, "build_and_push_docker_image")
         /\ calls' = calls \o r.calls
         /\ result' = [result EXCEPT
                         !["build_and_push_docker_image"] = Report(r.ret # None)]
         /\ imageUri' = r.ret
         /\ Proceed(r.ret = None, "deploy")
    /\ UNCHANGED <<skipTest, roleExists, repoExists, policyFile, bucketLookup,
                   putDocs, createdRepos, roleArn, repositoryUri, agentId,
                   agentArn, elapsed, chunkCount, completeResponse>>

\* agent_id, agent_arn = deploy_to_agentcore(...)
\* if not agent_id or not agent_arn: sys.exit(1)
MainDeployToAgentcore ==
    /\ pc = "deploy"
    /\ UNCHANGED <<chatVars, agentVars, nameVars, clientVars, toolVars,
                 rerunVars, testSessionId, testStream>>
    /\ \E create \in {"ok", "conflict", "fail"}, l \in [1..3 -> OkFail],
          update \in OkFail, listing \in Listings :
         LET r == deploy_to_agentcore(AgentName, create, l, update, listing) IN
         /\ invoked' = Append(invoked, "deploy_to_agentcore")
         /\ calls' = calls \o r.calls
         /\ result' = [result EXCEPT
                         !["deploy_to_agentcore"] =
                             Report(r.id # None /\ r.arn # None)]
         /\ agentId' = r.id
         /\ targetPage' = IF create = "conflict"
                          THEN PageOf(listing, AgentName) ELSE 0
         /\ agentArn' = r.arn
         /\ Proceed(r.id = None \/ r.arn = None, "call_wait")
    /\ UNCHANGED <<skipTest, roleExists, repoExists, policyFile, bucketLookup,
                   putDocs, createdRepos, roleArn, repositoryUri, imageUri,
                   elapsed, chunkCount, completeResponse>>

\* main() calls wait_for_agent_ready(agent_id, args.region)
MainCallWait ==
    /\ pc = "call_wait"
    /\ UNCHANGED <<chatVars, agentVars, nameVars, clientVars, toolVars,
                 rerunVars, targetPage, testSessionId, testStream>>
    /\ invoked' = Append(invoked, "wait_for_agent_ready")
    /\ elapsed' = 0
    /\ pc' = "polling"
    /\ UNCHANGED <<result, calls, exitCode, banner, skipTest, roleExists,
                   repoExists, policyFile, bucketLookup, putDocs, createdRepos,
                   roleArn, repositoryUri, imageUri, agentId, agentArn,
                   chunkCount, completeResponse>>

AfterWait_WaitsAgain(ready) == IF ready THEN "test" ELSE "call_wait"

\* where main() continues once wait_for_agent_ready has returned:
\* if not wait_for_agent_ready(...): print("Agent may not be fully ready")
AfterWait(ready) == "test"

\* one pass of: for elapsed in range(0, max_minutes * 60, 30)
WaitPoll ==
    /\ pc = "polling"
    /\ UNCHANGED <<chatVars, agentVars, nameVars, clientVars, toolVars,
                 rerunVars, targetPage, testSessionId, testStream>>
    /\ elapsed < MaxMinutes * 60
    /\ \E status \in PollOutcomes :
         /\ calls' = Append(calls, CallArg("get_agent_runtime", agentId,
                                IF status = "error" THEN "fail" ELSE status))
         /\ CASE PollVerdict(status) = "ready" ->
                    /\ result' = [result EXCEPT !["wait_for_agent_ready"] = "ok"]
                    /\ pc' = AfterWait(TRUE)
                    /\ UNCHANGED elapsed
              [] PollVerdict(status) = "failed" ->
                    /\ result' = [result EXCEPT !["wait_for_agent_ready"] = "fail"]
                    /\ pc' = AfterWait(FALSE)
                    /\ UNCHANGED elapsed
              [] OTHER ->
                    /\ elapsed' = elapsed + 30
                    /\ UNCHANGED <<result, pc>>
    /\ UNCHANGED <<invoked, exitCode, banner, skipTest, roleExists, repoExists,
                   policyFile, bucketLookup, putDocs, createdRepos, roleArn,
                   repositoryUri, imageUri, agentId, agentArn, chunkCount,
                   completeResponse>>

\* the loop ran out: print("Timeout after ..."); return False
WaitTimeout ==
    /\ pc = "polling"
    /\ UNCHANGED <<chatVars, agentVars, nameVars, clientVars, toolVars,
                 rerunVars, targetPage, testSessionId, testStream>>
    /\ elapsed >= MaxMinutes * 60
    /\ result' = [result EXCEPT !["wait_for_agent_ready"] = "fail"]
    /\ pc' = AfterWait(FALSE)
    /\ UNCHANGED <<invoked, calls, exitCode, banner, skipTest, roleExists,
                   repoExists, policyFile, bucketLookup, putDocs, createdRepos,
                   roleArn, repositoryUri, imageUri, agentId, agentArn, elapsed,
                   chunkCount, completeResponse>>

\* how main() ends once test_agent has returned (the value is not used)
AfterTest(ok) == Complete

\* if not args.skip_test: test_agent(agent_id, agent_arn, args.region)
MainTestAgent ==
    /\ pc = "test"
    /\ UNCHANGED <<chatVars, agentVars, nameVars, clientVars, toolVars,
                 rerunVars, targetPage>>
    /\ ~skipTest
    /\ \E invoke \in OkFail, chunks \in TestStreams,
          broken \in BOOLEAN, u1 \in Uuids, u2 \in Uuids :
         LET r == test_agent(invoke, chunks, broken) IN
         /\ invoked' = Append(invoked, "test_agent")
         /\ testSessionId' = TestSessionId(u1, u2)
         /\ testStream' = IF invoke = "ok" THEN chunks ELSE <<>>
         /\ calls' = calls \o r.calls
         /\ result' = [result EXCEPT !["test_agent"] = Report(r.ret)]
         /\ chunkCount' = r.count
         /\ completeResponse' = r.response
         /\ AfterTest(r.ret)
    /\ UNCHANGED <<skipTest, roleExists, repoExists, policyFile, bucketLookup,
                   putDocs, createdRepos, roleArn, repositoryUri, imageUri,
                   agentId, agentArn, elapsed>>

\* --skip-test: main() goes straight to the closing banner
MainSkipTest ==
    /\ pc = "test"
    /\ UNCHANGED <<chatVars, agentVars, nameVars, clientVars, toolVars,
                 rerunVars, targetPage, testSessionId, testStream>>
    /\ skipTest
    /\ Complete
    /\ UNCHANGED <<invoked, result, calls, skipTest, roleExists, repoExists,
                   policyFile, bucketLookup, putDocs, createdRepos, roleArn,
                   repositoryUri, imageUri, agentId, agentArn, elapsed,
                   chunkCount, completeResponse>>

NextDeploy ==
    \/ MainCheckPrerequisites
    \/ MainUpdatePolicy
    \/ MainEnsureIamRole
    \/ MainCreateEcrRepository
    \/ MainBuildAndPush
    \/ MainDeployToAgentcore
    \/ MainCallWait
    \/ WaitPoll
    \/ WaitTimeout
    \/ MainTestAgent
    \/ MainSkipTest

----------------------------------------------------------------------------
(* invoke_agent_async.py: AgentChat.stream_response.  A text is a sequence *)
(* of tokens; "x in text" of the code is token membership.                 *)

MaxLines == 4   \* lines of one response stream

Open  == "<tool_call>"
Close == "</tool_call>"
Nl    == "\n"

\* '\n<tool_call>\nname: <n>\nparams: <p>\n</tool_call>\n' in one chunk
WholeBlock == <<Nl, Open, Nl, "name: q", Nl, "params: {}", Nl, Close, Nl>>

\* The lines iter_lines() may give, <<kind, tokens>>:
\*   "data"  'data: ' + a JSON string        "json"  'data: ' + another JSON value
\*   "bad"   'data: ' + invalid JSON         "blank" an empty line
\*   "other" a line that does not start with 'data: '
Lines ==
    { <<"data", <<"Hello">>>>, <<"data", <<" ", "world">>>>,
      <<"data", <<Open>>>>, <<"data", <<Close>>>>,
      <<"data", <<"name: q", Nl, "params: {}">>>>,
      <<"data", <<"Hello", Open>>>>,
      <<"data", WholeBlock>>,
      <<"json", <<"{k: 1}">>>>,
      <<"bad", <<"{oops">>>>,
      <<"blank", <<>>>>,
      <<"other", <<"event: ping">>>> }

Streams == UNION {[1..n -> Lines] : n \in 0..MaxLines}

Has(text, t) == \E i \in 1..Len(text) : text[i] = t

\* text_chunk: the parsed string, or json.dumps(parsed_chunk) + "\n\n"
TextChunk(line) ==
    IF line[1] = "data" THEN line[2] ELSE line[2] \o <<Nl, Nl>>

IsNl(t) == t = Nl

\* the whitespace str.strip() removes: a token is a newline, a space, or
\* text without whitespace at either end
IsSpace(t) == t \in {Nl, " "}

RECURSIVE LStrip(_)
LStrip(text) ==
    IF text # <<>> /\ IsSpace(Head(text)) THEN LStrip(Tail(text)) ELSE text

RECURSIVE RStrip(_)
RStrip(text) ==
    IF text # <<>> /\ IsSpace(text[Len(text)])
    THEN RStrip(SubSeq(text, 1, Len(text) - 1)) ELSE text

\* tool_buffer.strip()
Strip(text) == RStrip(LStrip(text))

\* .split('\n')
RECURSIVE Split(_)
Split(text) ==
    IF \E i \in 1..Len(text) : IsNl(text[i])
    THEN LET i == CHOOSE k \in 1..Len(text) :
                    IsNl(text[k]) /\ \A j \in 1..(k - 1) : ~IsNl(text[j])
         IN <<SubSeq(text, 1, i - 1)>> \o Split(SubSeq(text, i + 1, Len(text)))
    ELSE <<text>>

NameTokens  == {"name: q"}
ParamTokens == {"params: {}"}

\* the last line of lines that starts with one of toks, <<>> when none does
LastStartingWith(lines, toks) ==
    LET idx == {i \in 1..Len(lines) : lines[i] # <<>> /\ lines[i][1] \in toks}
    IN IF idx = {} THEN <<>>
       ELSE lines[CHOOSE i \in idx : \A j \in idx : j <= i]

\* AgentChat._format_tool_call(tool_buffer): prints the tool name and the
\* parameters it finds; then, with tool_params set, reaches
\* 'return response_text' (never assigned: UnboundLocalError) and, without,
\* evaluates 'response.get(...)' (no such name: NameError).
format_tool_call(buffer) ==
    LET lines       == Split(Strip(buffer))
        tool_name   == LastStartingWith(lines, NameTokens)
        tool_params == LastStartingWith(lines, ParamTokens)
    IN [printed |-> (IF tool_name # <<>> THEN <<<<"tool", tool_name>>>> ELSE <<>>)
                    \o (IF tool_params # <<>>
                        THEN <<<<"params", tool_params>>>> ELSE <<>>),
        raises  |-> TRUE,
        error   |-> IF tool_params # <<>> THEN "UnboundLocalError" ELSE "NameError"]

\* how the tokens of a chunk that are not markers were treated
Fates(chunk, fate) ==
    LET keep == SelectSeq(chunk, LAMBDA t : t \notin {Open, Close})
    IN [i \in 1..Len(keep) |-> <<keep[i], fate>>]

\* the body of the loop for one parsed chunk: marker detection, buffering,
\* rendering
HandleChunk(chunk, itc, buf, text) ==
    IF Has(chunk, Open) THEN
        [itc |-> TRUE, buf |-> <<>>, text |-> text,
         out |-> <<<<"toolhdr", <<>>>>>>, raised |-> FALSE,
         fates |-> Fates(chunk, "dropped")]
    ELSE IF Has(chunk, Close) THEN
        LET r == format_tool_call(buf) IN
        [itc |-> FALSE, buf |-> buf, text |-> text,
         out |-> IF r.raises THEN r.printed
                 ELSE Append(r.printed, <<"newline", <<>>>>),
         raised |-> r.raises,
         fates |-> Fates(chunk, "dropped")]
    ELSE IF itc THEN
        [itc |-> TRUE, buf |-> buf \o chunk, text |-> text \o chunk,
         out |-> <<>>, raised |-> FALSE, fates |-> Fates(chunk, "tool")]
    ELSE
        [itc |-> FALSE, buf |-> buf, text |-> text \o chunk,
         out |-> <<<<"text", chunk>>>>, raised |-> FALSE,
         fates |-> Fates(chunk, "text")]

\* if "text/event-stream" in response.get("contentType", ""):
ChatEventStream ==
    /\ chatPc = "start"
    /\ chatPc' = "streaming"
    /\ UNCHANGED <<stream, pos, in_tool_call, tool_buffer, complete_text,
                   console, fates>>
    /\ UNCHANGED <<deployVars, agentVars, nameVars, clientVars, toolVars,
                 rerunVars>>

\* any other content type: stream_response has no branch for it
ChatOtherContentType ==
    /\ chatPc = "start"
    /\ chatPc' = "returned_none"
    /\ UNCHANGED <<stream, pos, in_tool_call, tool_buffer, complete_text,
                   console, fates>>
    /\ UNCHANGED <<deployVars, agentVars, nameVars, clientVars, toolVars,
                 rerunVars>>

\* one pass of: for line in response["response"].iter_lines(chunk_size=1)
ChatLine ==
    /\ chatPc = "streaming"
    /\ pos < Len(stream)
    /\ pos' = pos + 1
    /\ LET line == stream[pos + 1] IN
       IF line[1] \in {"blank", "other"} THEN
            UNCHANGED <<chatPc, in_tool_call, tool_buffer, complete_text,
                        console, fates>>
       ELSE IF line[1] = "bad" THEN
            \* except json.JSONDecodeError: console.print(json_chunk)
            /\ console' = Append(console, <<"raw", line[2]>>)
            /\ UNCHANGED <<chatPc, in_tool_call, tool_buffer, complete_text,
                           fates>>
       ELSE
            LET h == HandleChunk(TextChunk(line), in_tool_call, tool_buffer,
                                 complete_text) IN
            /\ in_tool_call' = h.itc
            /\ tool_buffer' = h.buf
            /\ complete_text' = h.text
            /\ console' = console \o h.out
            /\ fates' = fates \o h.fates
            /\ chatPc' = IF h.raised THEN "raised" ELSE "streaming"
    /\ UNCHANGED stream
    /\ UNCHANGED <<deployVars, agentVars, nameVars, clientVars, toolVars,
                 rerunVars>>

\* the stream is exhausted: console.print(); return {}
ChatReturn ==
    /\ chatPc = "streaming"
    /\ pos = Len(stream)
    /\ console' = Append(console, <<"newline", <<>>>>)
    /\ chatPc' = "returned"
    /\ UNCHANGED <<stream, pos, in_tool_call, tool_buffer, complete_text, fates>>
    /\ UNCHANGED <<deployVars, agentVars, nameVars, clientVars, toolVars,
                 rerunVars>>

NextChat ==
    \/ ChatEventStream
    \/ ChatOtherContentType
    \/ ChatLine
    \/ ChatReturn

----------------------------------------------------------------------------
(* blockchain_agent_agentcore.py: invoke_streaming and invoke_sync serving *)
(* requests against the module-global agent and mcp_client.  A streaming   *)
(* request is an async generator: it advances when its consumer asks for   *)
(* the next event and is suspended at each yield, inside "with mcp_client" *)
(* while it forwards agent events.  The module takes no lock around the    *)
(* client: mcpSession is the set of requests inside the with block.        *)

NReq      == 2   \* requests handled
MaxEvents == 2   \* events the agent emits for one request

Requests == 1..NReq

Missing  == "<no prompt key>"
Payloads == {Missing, "", "How many blocks?"}

AgentEvents == {"data", "current_tool_use"}

ErrNoPrompt == "error: No prompt found in input"
ErrStream   == "error: Agent streaming failed"
ErrSync     == "error: Agent processing failed"
Success     == "status: success"

user_message_NoDefault(p) == p

\* user_message = payload.get("prompt", "")
user_message(p) == IF p = Missing THEN "" ELSE p

\* the except clause of invoke_streaming: one error event after the events
\* already yielded
StreamExcept_Reraise(events) == events

StreamExcept(events) == Append(events, ErrStream)

\* the except clause of invoke_sync: the error dictionary is the return value
SyncExcept_ReportsSuccess == <<Success>>

SyncExcept == <<ErrSync>>

Forward_Twice(event) == <<event, event>>

\* async for event in agent.stream_async(user_message): yield event
Forward(event) == <<event>>

\* initialize_blockchain_agent(), called when the module is loaded: it binds
\* mcp_client, enters its session to list the tools, binds agent and leaves
\* the session; when that fails it re-raises and the module does not load.
InitializeBlockchainAgent ==
    /\ agentLoaded = "loading"
    /\ \E o \in {"ok", "no tools", "fail"} :
         agentLoaded' = IF o = "ok" THEN "ready" ELSE "failed"
    /\ UNCHANGED <<rpc, kind, prompt, yielded, produced, agentRaised, entered,
                   mcpSession>>
    /\ UNCHANGED <<deployVars, chatVars, nameVars, clientVars, toolVars,
                 rerunVars>>

\* with mcp_client: how entering the shared client ends for a request, given
\* the requests inside the with block. The module does nothing of its own
\* to keep a second request out; whether the client admits it or raises is
\* the client's, so both outcomes are kept.
EnterOutcomes(inside) ==
    IF inside = {} THEN {"entered"} ELSE {"entered", "raised"}

\* a request arrives at one of the two entry points
Arrive(r) ==
    /\ agentLoaded = "ready"
    /\ rpc[r] = "idle"
    /\ \E k \in {"stream", "sync"}, p \in Payloads :
         /\ kind' = [kind EXCEPT ![r] = k]
         /\ prompt' = [prompt EXCEPT ![r] = p]
    /\ rpc' = [rpc EXCEPT ![r] = "arrived"]
    /\ UNCHANGED <<yielded, produced, agentRaised, entered, mcpSession,
                   agentLoaded>>
    /\ UNCHANGED <<deployVars, chatVars, nameVars, clientVars, toolVars,
                 rerunVars>>

\* invoke_streaming, first request for an event: runs from the top of the
\* function to its first yield, or into "with mcp_client:" up to the await
\* of the agent's first event
StreamStart(r) ==
    /\ rpc[r] = "arrived"
    /\ kind[r] = "stream"
    /\ IF user_message(prompt[r]) = "" THEN
            /\ yielded' = [yielded EXCEPT ![r] = Append(@, ErrNoPrompt)]
            /\ rpc' = [rpc EXCEPT ![r] = "at_error"]
            /\ UNCHANGED <<entered, mcpSession>>
       ELSE \E o \in EnterOutcomes(mcpSession) :
            IF o = "raised" THEN
                \* entering mcp_client raises: except Exception yields
                /\ yielded' = [yielded EXCEPT ![r] = StreamExcept(@)]
                /\ rpc' = [rpc EXCEPT ![r] = "at_error"]
                /\ UNCHANGED <<entered, mcpSession>>
            ELSE
                /\ entered' = [entered EXCEPT ![r] = TRUE]
                /\ mcpSession' = mcpSession \cup {r}
                /\ rpc' = [rpc EXCEPT ![r] = "waiting"]
                /\ UNCHANGED yielded
    /\ UNCHANGED <<kind, prompt, produced, agentRaised, agentLoaded>>
    /\ UNCHANGED <<deployVars, chatVars, nameVars, clientVars, toolVars,
                 rerunVars>>

\* Inside "with mcp_client:", the generator awaiting agent.stream_async gets
\* its next event, its end, or its exception.
AgentStep(r) ==
    /\ rpc[r] = "waiting"
    /\ \/ \E e \in AgentEvents :
            /\ Len(produced[r]) < MaxEvents
            /\ produced' = [produced EXCEPT ![r] = Append(@, e)]
            /\ yielded' = [yielded EXCEPT ![r] = @ \o Forward(e)]
            /\ rpc' = [rpc EXCEPT ![r] = "streaming"]
            /\ UNCHANGED <<agentRaised, mcpSession>>
       \/ \* the agent stream ends: the with block exits, the generator returns
          /\ mcpSession' = mcpSession \ {r}
          /\ rpc' = [rpc EXCEPT ![r] = "done"]
          /\ UNCHANGED <<produced, yielded, agentRaised>>
       \/ \* the agent raises: the with block exits, except Exception yields
          /\ agentRaised' = [agentRaised EXCEPT ![r] = TRUE]
          /\ yielded' = [yielded EXCEPT ![r] = StreamExcept(@)]
          /\ mcpSession' = mcpSession \ {r}
          /\ rpc' = [rpc EXCEPT ![r] = "at_error"]
          /\ UNCHANGED produced
    /\ UNCHANGED <<kind, prompt, entered, agentLoaded>>
    /\ UNCHANGED <<deployVars, chatVars, nameVars, clientVars, toolVars,
                 rerunVars>>

\* invoke_streaming, resumed at 'yield event' inside the with block: it
\* awaits the agent's next event
StreamResume(r) ==
    /\ rpc[r] = "streaming"
    /\ rpc' = [rpc EXCEPT ![r] = "waiting"]
    /\ UNCHANGED <<kind, prompt, yielded, produced, agentRaised, entered,
                   mcpSession, agentLoaded>>
    /\ UNCHANGED <<deployVars, chatVars, nameVars, clientVars, toolVars,
                 rerunVars>>

\* invoke_streaming, resumed after it yielded an error event: it returns
StreamFinish(r) ==
    /\ rpc[r] = "at_error"
    /\ rpc' = [rpc EXCEPT ![r] = "done"]
    /\ UNCHANGED <<kind, prompt, yielded, produced, agentRaised, entered,
                   mcpSession, agentLoaded>>
    /\ UNCHANGED <<deployVars, chatVars, nameVars, clientVars, toolVars,
                 rerunVars>>

\* the consumer stops iterating (break): the generator stays suspended
StreamAbandon(r) ==
    /\ rpc[r] \in {"streaming", "at_error"}
    /\ rpc' = [rpc EXCEPT ![r] = "abandoned"]
    /\ UNCHANGED <<kind, prompt, yielded, produced, agentRaised, entered,
                   mcpSession, agentLoaded>>
    /\ UNCHANGED <<deployVars, chatVars, nameVars, clientVars, toolVars,
                 rerunVars>>

\* the abandoned generator is finalized: GeneratorExit at its yield unwinds
\* the with block
StreamClose(r) ==
    /\ rpc[r] = "abandoned"
    /\ rpc' = [rpc EXCEPT ![r] = "closed"]
    /\ mcpSession' = mcpSession \ {r}
    /\ UNCHANGED <<kind, prompt, yielded, produced, agentRaised, entered,
                   agentLoaded>>
    /\ UNCHANGED <<deployVars, chatVars, nameVars, clientVars, toolVars,
                 rerunVars>>

\* invoke_sync, from its call to its return or into "with mcp_client:", where
\* it blocks in agent(user_message)
SyncInvoke(r) ==
    /\ rpc[r] = "arrived"
    /\ kind[r] = "sync"
    /\ IF user_message(prompt[r]) = "" THEN
            /\ yielded' = [yielded EXCEPT ![r] = <<ErrNoPrompt>>]
            /\ rpc' = [rpc EXCEPT ![r] = "done"]
            /\ UNCHANGED <<entered, mcpSession>>
       ELSE \E o \in EnterOutcomes(mcpSession) :
            IF o = "raised" THEN
                \* entering mcp_client raises: except Exception returns
                /\ yielded' = [yielded EXCEPT ![r] = SyncExcept]
                /\ rpc' = [rpc EXCEPT ![r] = "done"]
                /\ UNCHANGED <<entered, mcpSession>>
            ELSE
                /\ entered' = [entered EXCEPT ![r] = TRUE]
                /\ mcpSession' = mcpSession \cup {r}
                /\ rpc' = [rpc EXCEPT ![r] = "running"]
                /\ UNCHANGED yielded
    /\ UNCHANGED <<kind, prompt, produced, agentRaised, agentLoaded>>
    /\ UNCHANGED <<deployVars, chatVars, nameVars, clientVars, toolVars,
                 rerunVars>>

\* invoke_sync: agent(user_message) returns or raises, the with block exits
\* and the function returns
SyncReturn(r) ==
    /\ rpc[r] = "running"
    /\ rpc' = [rpc EXCEPT ![r] = "done"]
    /\ mcpSession' = mcpSession \ {r}
    /\ \/ \* response = agent(user_message) returns
          /\ produced' = [produced EXCEPT ![r] = <<"result">>]
          /\ yielded' = [yielded EXCEPT ![r] = <<Success>>]
          /\ UNCHANGED agentRaised
       \/ \* agent(user_message) raises
          /\ agentRaised' = [agentRaised EXCEPT ![r] = TRUE]
          /\ yielded' = [yielded EXCEPT ![r] = SyncExcept]
          /\ UNCHANGED produced
    /\ UNCHANGED <<kind, prompt, entered, agentLoaded>>
    /\ UNCHANGED <<deployVars, chatVars, nameVars, clientVars, toolVars,
                 rerunVars>>

NextAgent ==
    \/ InitializeBlockchainAgent
    \/ \E r \in Requests : Arrive(r)
    \/ \E r \in Requests : StreamStart(r)
    \/ \E r \in Requests : AgentStep(r)
    \/ \E r \in Requests : StreamResume(r)
    \/ \E r \in Requests : StreamFinish(r)
    \/ \E r \in Requests : StreamAbandon(r)
    \/ \E r \in Requests : StreamClose(r)
    \/ \E r \in Requests : SyncInvoke(r)
    \/ \E r \in Requests : SyncReturn(r)

----------------------------------------------------------------------------
(* deploy_blockchain_agent.py, main(): the --agent-name argument. A name   *)
(* is a sequence of characters; "U+00E9" (a letter) and "U+00B2" (a digit) *)
(* stand for characters outside ASCII.                                     *)

MaxNameLen == 3

\* fixed_name[:48]
NameLimit == 48

AsciiLetters    == {"a", "Z", "g", "e", "n", "t"}
AsciiDigits     == {"7"}
NonAsciiLetters == {"U+00E9"}
NonAsciiDigits  == {"U+00B2"}

\* str.isalnum() and str.isalpha() on one character
isalnum(c) ==
    c \in AsciiLetters \cup AsciiDigits \cup NonAsciiLetters \cup NonAsciiDigits

isalpha(c) == c \in AsciiLetters \cup NonAsciiLetters

\* the characters --agent-name is drawn from
NameChars == {"a", "Z", "7", "-", "_", "!", "U+00E9", "U+00B2"}

\* names long enough for the truncation to cut them
LongNames ==
    { [i \in 1..(NameLimit + 1) |-> "a"],
      [i \in 1..(NameLimit - 4) |-> IF i = 1 THEN "7" ELSE "a"] }

\* the value '--' of --agent-name: parse_args() takes it for the end-of-options
\* marker and delivers no string for it, so main() never holds it as a name
EndOfOptions == <<"-", "-">>

\* the strings parse_args() delivers as args.agent_name
Names == (SeqsUpTo(NameChars, MaxNameLen) \cup LongNames) \ {EndOfOptions}

\* original_name.replace('-', '_')
ReplaceHyphens(name) ==
    [i \in 1..Len(name) |-> IF name[i] = "-" THEN "_" ELSE name[i]]

\* ''.join(c for c in fixed_name if c.isalnum() or c == '_')
KeepValid(name) == SelectSeq(name, LAMBDA c : isalnum(c) \/ c = "_")

\* if fixed_name and not fixed_name[0].isalpha(): 'agent_' + fixed_name
AgentPrefix == <<"a", "g", "e", "n", "t", "_">>

EnsureLetterFirst(name) ==
    IF name # <<>> /\ ~isalpha(name[1]) THEN AgentPrefix \o name ELSE name

\* fixed_name[:48]
Truncate(name) ==
    SubSeq(name, 1, IF Len(name) < NameLimit THEN Len(name) ELSE NameLimit)

fixed_name(name) ==
    Truncate(EnsureLetterFirst(KeepValid(ReplaceHyphens(name))))

\* the pattern main() documents: [a-zA-Z][a-zA-Z0-9_]{0,47}
MatchesNamePattern(name) ==
    /\ Len(name) \in 1..NameLimit
    /\ name[1] \in AsciiLetters
    /\ \A i \in 2..Len(name) :
          name[i] \in AsciiLetters \cup AsciiDigits \cup {"_"}

\* main(), lines 478-492: args.agent_name is replaced when the fix changed it
MainFixAgentName ==
    /\ namePc = "parsed"
    /\ args_agent_name' = IF fixed_name(original_name) # original_name
                          THEN fixed_name(original_name)
                          ELSE args_agent_name
    /\ namePc' = "fixed"
    /\ UNCHANGED <<original_name, passedName>>
    /\ UNCHANGED <<deployVars, chatVars, agentVars, clientVars, toolVars,
                 rerunVars>>

\* main(), line 533: deploy_to_agentcore(args.agent_name, ...)
MainPassAgentName ==
    /\ namePc = "fixed"
    /\ passedName' = args_agent_name
    /\ namePc' = "deploying"
    /\ UNCHANGED <<original_name, args_agent_name>>
    /\ UNCHANGED <<deployVars, chatVars, agentVars, clientVars, toolVars,
                 rerunVars>>

NextName ==
    \/ MainFixAgentName
    \/ MainPassAgentName

----------------------------------------------------------------------------
(* invoke_agent_async.py: main(), AgentChat.__init__, _get_agent_arn and   *)
(* the turns of chat_loop. The region's runtime listing is a sequence of   *)
(* pages, as for the deployment script. console also holds what the client *)
(* writes with print(). KeyboardInterrupt is taken to arrive where the     *)
(* process waits: in input(), in invoke_agent_runtime or in a read of the  *)
(* response.                                                               *)

MaxTurns == 2

\* statuses get_agent_runtime may report to the client
ClientStatuses == ReadyStatuses \cup {"CREATING"}

\* values of args.agent_name in the client's main(): None without the
\* option and without AGENT_NAME, the empty string, or a name
ClientNames == {None, "", AgentName}

\* main(), lines 303-307: what it prints before sys.exit(1)
UsagePrinted ==
    << <<"error", <<"--agent-name is required">>>>,
       <<"usage", <<"Usage:">>>>,
       <<"usage", <<"python invoke_agent_async.py --agent-name blockchain_agent">>>>,
       <<"usage", <<"Or set environment variable:">>>>,
       <<"usage", <<"export AGENT_NAME=blockchain_agent">>>> >>

\* _get_agent_arn(): list and get are the outcomes of list_agent_runtimes and
\* get_agent_runtime, status the status the latter reports, listing what the
\* region's listing holds; the one list_agent_runtimes call gives its first
\* page. printed is what it writes to the console.
get_agent_arn(agent_name, list, get, status, listing) ==
    LET cList(x) == Call("list_agent_runtimes", x)
        id == FindInPage(listing[1], agent_name)
        looking == <<"lookup", <<agent_name>>>>
        failed == <<"error", <<"Error fetching agent ARN">>>>
        available == [i \in 1..Len(listing[1]) |-> <<"bullet", <<listing[1][i]>>>>]
    IN IF list = "fail" THEN
            [calls |-> <<cList("fail")>>, arn |-> None, warned |-> FALSE,
             printed |-> <<looking, failed>>]
       ELSE IF id = None THEN
            [calls |-> <<cList("ok")>>, arn |-> None, warned |-> FALSE,
             printed |-> <<looking, <<"not_found", <<agent_name>>>>,
                           <<"available", <<>>>> >> \o available]
       ELSE IF get = "fail" THEN
            [calls |-> <<cList("ok"), CallArg("get_agent_runtime", id, "fail")>>,
             arn |-> None, warned |-> FALSE,
             printed |-> <<looking, failed>>]
       ELSE
            [calls |-> <<cList("ok"), CallArg("get_agent_runtime", id, status)>>,
             arn |-> ArnOf(id), warned |-> status \notin ReadyStatuses,
             printed |-> <<looking, <<"found", <<status>>>> >>
                         \o (IF status \notin ReadyStatuses
                             THEN << <<"warning", <<status>>>> >> ELSE <<>>)]

\* str.replace("-", "")
RemoveHyphens(text) == SelectSeq(text, LAMBDA c : c # "-")

SessionPrefixLen == 40

\* AgentChat.__init__: str(uuid.uuid4()).replace("-", "")[:40] + "f"
ClientSessionId_NoSuffix(u) == Prefix(RemoveHyphens(u), SessionPrefixLen)

ClientSessionId(u) == Prefix(RemoveHyphens(u), SessionPrefixLen) \o <<"f">>

\* AgentChat.__init__, lines 41-49: the banner
Banner(name, arn, sid) ==
    << <<"title", <<"Blockchain Data Agent Chat Interface">>>>,
       <<"rule", <<>>>>,
       <<"agent", <<name>>>>,
       <<"region", <<>>>>,
       <<"arn", <<arn>>>>,
       <<"session", sid>>,
       <<"rule", <<>>>>,
       <<"hint", <<"quit", "exit", "bye">>>>,
       <<"rule", <<>>>> >>

\* what input() gives chat_loop: a line, as a sequence of characters, or
\* one of the exceptions chat_loop catches around it
InputEnds == {<<"EOFError">>, <<"KeyboardInterrupt">>}

InputLines == { <<>>,
                <<" ", "\t">>,
                <<"q">>,
                <<" ", "B", "y", "e", " ">>,
                <<"E", "X", "I", "T">>,
                <<"q", "u", "i", "t">>,
                <<"h", "i">>,
                <<"\t", "q", "u", "i", "t", " ", "i", "t", " ">> }

Whitespace == {" ", "\t"}

\* str.strip()
StripLine(line) ==
    LET keep == {i \in 1..Len(line) : line[i] \notin Whitespace}
    IN IF keep = {} THEN <<>>
       ELSE SubSeq(line, CHOOSE i \in keep : \A j \in keep : i <= j,
                         CHOOSE i \in keep : \A j \in keep : i >= j)

UpperCase == <<"B", "E", "I", "Q", "T", "U", "X", "Y", "H">>
LowerCase == <<"b", "e", "i", "q", "t", "u", "x", "y", "h">>

\* str.lower()
Lower(text) ==
    [i \in 1..Len(text) |->
        IF \E k \in 1..Len(UpperCase) : UpperCase[k] = text[i]
        THEN LowerCase[CHOOSE k \in 1..Len(UpperCase) : UpperCase[k] = text[i]]
        ELSE text[i]]

\* ["quit", "exit", "bye", "q"]
ExitCommands == { <<"q", "u", "i", "t">>, <<"e", "x", "i", "t">>,
                  <<"b", "y", "e">>, <<"q">> }

chat_loop_step_NoLower(in) ==
    IF in \in InputEnds THEN "break"
    ELSE IF StripLine(in) \in ExitCommands THEN "break"
    ELSE IF StripLine(in) = <<>> THEN "continue"
    ELSE "send"

\* one pass of chat_loop's while True on what input() gave
chat_loop_step(in) ==
    IF in \in InputEnds THEN "break"
    ELSE IF Lower(StripLine(in)) \in ExitCommands THEN "break"
    ELSE IF StripLine(in) = <<>> THEN "continue"
    ELSE "send"

\* the response streams the chat client is given: one that is rendered to
\* its end and one with a tool call
ClientStreams ==
    { << <<"data", <<"Hello">>>> >>,
      << <<"data", <<Open>>>>, <<"data", <<Close>>>> >> }

\* outcomes of invoke_agent_runtime in send_message: it returns a response,
\* it raises, or KeyboardInterrupt arrives while it waits
InvokeOutcomes == {"ok", "fail", "interrupt"}

\* print(f"\n Error: {e}") of send_message and the apology of chat_loop
ErrorPrinted == <<"print", <<"Error">>>>
SorryPrinted ==
    <<"print", <<"Sorry, I couldn't process your request. Please try again.">>>>
InterruptedPrinted == <<"print", <<Nl, Nl, "Chat interrupted. Goodbye!">>>>

\* main(): without an agent name it prints the usage and exits with status 1
\* before AgentChat is constructed
ClientMain ==
    /\ clientPc = "main"
    /\ IF chat_agent_name \in {None, ""}
       THEN /\ console' = console \o UsagePrinted
            /\ clientPc' = "exited" /\ clientExit' = 1
       ELSE /\ clientPc' = "start"
            /\ UNCHANGED <<console, clientExit>>
    /\ UNCHANGED <<chat_agent_name, regionRuntimes, agent_runtime_arn,
                   clientCalls, clientWarned, turns, session_id, inputs, sent>>
    /\ UNCHANGED <<chatPc, stream, pos, in_tool_call, tool_buffer,
                   complete_text, fates>>
    /\ UNCHANGED <<deployVars, agentVars, nameVars, toolVars, rerunVars>>

\* AgentChat.__init__: looks the ARN up and exits with status 1 without it;
\* with it, draws the session id and prints the banner
AgentChatInit ==
    /\ clientPc = "start"
    /\ \E list \in OkFail, get \in OkFail, status \in ClientStatuses,
          u \in Uuids :
         LET r == get_agent_arn(chat_agent_name, list, get, status,
                                regionRuntimes)
         IN /\ clientCalls' = clientCalls \o r.calls
            /\ agent_runtime_arn' = r.arn
            /\ clientWarned' = r.warned
            /\ IF r.arn = None
               THEN /\ clientPc' = "exited" /\ clientExit' = 1
                    /\ session_id' = session_id
                    /\ console' = console \o r.printed
                          \o << <<"not_found_in_region", <<chat_agent_name>>>> >>
               ELSE /\ clientPc' = "ready" /\ clientExit' = clientExit
                    /\ session_id' = ClientSessionId(u)
                    /\ console' = console \o r.printed
                          \o Banner(chat_agent_name, r.arn, ClientSessionId(u))
    /\ UNCHANGED <<chat_agent_name, regionRuntimes, turns, inputs, sent>>
    /\ UNCHANGED <<chatPc, stream, pos, in_tool_call, tool_buffer,
                   complete_text, fates>>
    /\ UNCHANGED <<deployVars, agentVars, nameVars, toolVars, rerunVars>>

\* chat_loop: end of input or an exit command ends the loop and the process
ChatLoopQuit ==
    /\ clientPc = "ready"
    /\ \E in \in InputLines \cup InputEnds :
         /\ chat_loop_step(in) = "break"
         /\ inputs' = Append(inputs, in)
         /\ console' = Append(console,
                              IF in \in InputEnds
                              THEN <<"print", <<Nl, Nl, "Goodbye!">>>>
                              ELSE <<"print", <<"Goodbye!">>>>)
    /\ clientPc' = "exited"
    /\ clientExit' = 0
    /\ UNCHANGED <<chat_agent_name, regionRuntimes, agent_runtime_arn,
                   clientCalls, clientWarned, turns, session_id, sent>>
    /\ UNCHANGED <<chatPc, stream, pos, in_tool_call, tool_buffer,
                   complete_text, fates>>
    /\ UNCHANGED <<deployVars, agentVars, nameVars, toolVars, rerunVars>>

\* chat_loop: an empty input is skipped
ChatLoopEmpty ==
    /\ clientPc = "ready"
    /\ turns < MaxTurns
    /\ \E in \in InputLines :
         /\ chat_loop_step(in) = "continue"
         /\ inputs' = Append(inputs, in)
    /\ turns' = turns + 1
    /\ UNCHANGED <<clientPc, chat_agent_name, regionRuntimes,
                   agent_runtime_arn, clientCalls, clientExit, clientWarned,
                   session_id, sent>>
    /\ UNCHANGED <<deployVars, chatVars, agentVars, nameVars, toolVars,
                 rerunVars>>

\* chat_loop: a message is sent. send_message calls invoke_agent_runtime on
\* the ARN with the session id and the stripped input as prompt. When the
\* call raises, except Exception prints the error, send_message returns None
\* and the loop apologises and goes on. KeyboardInterrupt is not an Exception:
\* it reaches the outer except of chat_loop, which ends the loop and the
\* process. Otherwise the response goes to stream_response, whose steps are
\* ChatEventStream, ChatOtherContentType, ChatLine and ChatReturn.
ChatLoopSend ==
    /\ clientPc = "ready"
    /\ turns < MaxTurns
    /\ turns' = turns + 1
    /\ \E in \in InputLines, o \in InvokeOutcomes, ls \in ClientStreams :
         /\ chat_loop_step(in) = "send"
         /\ inputs' = Append(inputs, in)
         /\ sent' = Append(sent, <<session_id, StripLine(in)>>)
         /\ clientCalls' = Append(clientCalls,
                                  CallArg("invoke_agent_runtime",
                                          agent_runtime_arn, o))
         /\ CASE o = "ok" ->
                   /\ clientPc' = "sending"
                   /\ chatPc' = "start" /\ stream' = ls /\ pos' = 0
                   /\ in_tool_call' = FALSE /\ tool_buffer' = <<>>
                   /\ complete_text' = <<>> /\ fates' = <<>>
                   /\ console' = Append(console, <<"print", <<"Agent: ">>>>)
                   /\ UNCHANGED clientExit
              [] o = "fail" ->
                   /\ console' = console \o << <<"print", <<"Agent: ">>>>,
                                              ErrorPrinted, SorryPrinted >>
                   /\ UNCHANGED <<clientPc, clientExit, chatPc, stream, pos,
                                  in_tool_call, tool_buffer, complete_text,
                                  fates>>
              [] o = "interrupt" ->
                   /\ console' = console \o << <<"print", <<"Agent: ">>>>,
                                              InterruptedPrinted >>
                   /\ clientPc' = "exited" /\ clientExit' = 0
                   /\ UNCHANGED <<chatPc, stream, pos, in_tool_call,
                                  tool_buffer, complete_text, fates>>
    /\ UNCHANGED <<chat_agent_name, regionRuntimes, agent_runtime_arn,
                   clientWarned, session_id>>
    /\ UNCHANGED <<deployVars, agentVars, nameVars, toolVars, rerunVars>>

\* stream_response has ended: send_message returns {} or, when
\* stream_response had no branch for the content type or _format_tool_call
\* raised (except Exception prints the error), None, for which chat_loop
\* apologises; the loop goes on
ChatLoopSendReturn ==
    /\ clientPc = "sending"
    /\ chatPc \in {"returned", "returned_none", "raised"}
    /\ console' = console
                    \o (IF chatPc = "raised" THEN <<ErrorPrinted>> ELSE <<>>)
                    \o (IF chatPc = "returned" THEN <<>> ELSE <<SorryPrinted>>)
    /\ clientPc' = "ready"
    /\ UNCHANGED <<chat_agent_name, regionRuntimes, agent_runtime_arn,
                   clientCalls, clientExit, clientWarned, turns, session_id,
                   inputs, sent>>
    /\ UNCHANGED <<chatPc, stream, pos, in_tool_call, tool_buffer,
                   complete_text, fates>>
    /\ UNCHANGED <<deployVars, agentVars, nameVars, toolVars, rerunVars>>

\* KeyboardInterrupt while stream_response reads the response: it passes
\* except Exception of send_message and reaches the outer except of
\* chat_loop, which ends the loop and the process
ChatLoopInterrupt ==
    /\ clientPc = "sending"
    /\ chatPc \in {"start", "streaming"}
    /\ chatPc' = "interrupted"
    /\ console' = Append(console, InterruptedPrinted)
    /\ clientPc' = "exited"
    /\ clientExit' = 0
    /\ UNCHANGED <<chat_agent_name, regionRuntimes, agent_runtime_arn,
                   clientCalls, clientWarned, turns, session_id, inputs, sent>>
    /\ UNCHANGED <<stream, pos, in_tool_call, tool_buffer, complete_text,
                   fates>>
    /\ UNCHANGED <<deployVars, agentVars, nameVars, toolVars, rerunVars>>

\* the steps of main(), AgentChat.__init__ and chat_loop, and between the
\* start and the end of a send the steps of stream_response
NextClient ==
    \/ ClientMain
    \/ AgentChatInit
    \/ ChatLoopQuit
    \/ ChatLoopEmpty
    \/ ChatLoopSend
    \/ ChatLoopSendReturn
    \/ ChatLoopInterrupt
    \/ NextChat

----------------------------------------------------------------------------
(* utils/mcp_utils.py: get_tool_names. A tool object is <<shape, name>>:   *)
(*   "instance_attribute" : self.name = name was assigned                  *)
(*   "property"           : the class defines name, the instance           *)
(*                          dictionary has no such key                     *)
(*   "dict_entry_only"    : the instance dictionary has the key 'name' but *)
(*                          attribute access to it raises AttributeError   *)
(*   "no_name"            : an object without any name                     *)
(*   "mapping"            : the dict {'name': name}, the only shape that   *)
(*                          can be subscripted                             *)

MaxTools == 2

ToolShapes == {"instance_attribute", "property", "dict_entry_only",
               "no_name", "mapping"}

ToolNames == {"list_s3_buckets", "analyze_costs"}

Tools == ToolShapes \X ToolNames

\* hasattr(tool, 'name')
hasattr_name(tool) == tool[1] \in {"instance_attribute", "property"}

\* hasattr(tool, '__dict__') and 'name' in tool.__dict__
dict_has_name(tool) == tool[1] \in {"instance_attribute", "dict_entry_only"}

\* str(tool)
str(tool) ==
    IF tool[1] = "mapping"
    THEN IF tool[2] = "list_s3_buckets" THEN "{'name': 'list_s3_buckets'}"
                                        ELSE "{'name': 'analyze_costs'}"
    ELSE IF tool[2] = "list_s3_buckets" THEN "MockTool(list_s3_buckets)"
                                        ELSE "MockTool(analyze_costs)"

get_tool_names_SubscriptsMappings(ts) ==
    [i \in 1..Len(ts) |->
        IF hasattr_name(ts[i]) \/ ts[i][1] = "mapping" THEN ts[i][2]
        ELSE IF dict_has_name(ts[i]) THEN ts[i][2]
        ELSE str(ts[i])]

\* get_tool_names(tools): one element per tool, in the order of the tools
get_tool_names(ts) ==
    [i \in 1..Len(ts) |->
        IF hasattr_name(ts[i]) THEN ts[i][2]
        ELSE IF dict_has_name(ts[i]) THEN ts[i][2]
        ELSE str(ts[i])]

\* a call of get_tool_names(tools)
GetToolNames ==
    /\ toolPc = "called"
    /\ tool_names' = get_tool_names(tools)
    /\ toolPc' = "returned"
    /\ UNCHANGED tools
    /\ UNCHANGED <<deployVars, chatVars, agentVars, nameVars, clientVars,
                 rerunVars>>

NextTools == GetToolNames

----------------------------------------------------------------------------
(* deploy_blockchain_agent.py run repeatedly: the policy file and the ECR  *)
(* repository outlive a run, so a later call of a step finds what an       *)
(* earlier call left.                                                      *)

MaxRuns == 3

\* update_policy_with_dynamic_bucket() called on the policy file as it is now
RunUpdatePolicy ==
    /\ rerunPc = "running"
    /\ Len(runs) < MaxRuns
    /\ \E list \in OkFail :
         LET r == update_policy_with_dynamic_bucket(list, accountBuckets,
                                                    policyFile) IN
         /\ calls' = calls \o r.calls
         /\ policyFile' = r.file
         /\ bucketLookup' = r.lookup
         /\ runs' = Append(runs, [step |-> "update_policy", ret |-> r.lookup,
                                  calls |-> r.calls, before |-> policyFile,
                                  after |-> r.file])
    /\ UNCHANGED <<pc, invoked, result, exitCode, banner, skipTest, roleExists,
                   repoExists, putDocs, createdRepos, roleArn, repositoryUri,
                   imageUri, agentId, agentArn, elapsed, chunkCount,
                   completeResponse, targetPage, testSessionId, testStream>>
    /\ UNCHANGED <<rerunPc, accountBuckets>>
    /\ UNCHANGED <<chatVars, agentVars, nameVars, clientVars, toolVars>>

\* create_ecr_repository() called on the account as it is now
RunCreateEcrRepository ==
    /\ rerunPc = "running"
    /\ Len(runs) < MaxRuns
    /\ \E describe \in OkFail, create \in OkFail :
         LET r == create_ecr_repository(describe, create, repoExists) IN
         /\ calls' = calls \o r.calls
         /\ repoExists' = r.exists
         /\ createdRepos' = createdRepos + r.created
         /\ repositoryUri' = r.ret
         /\ runs' = Append(runs, [step |-> "create_ecr_repository",
                                  ret |-> r.ret, calls |-> r.calls,
                                  before |-> repoExists, after |-> r.exists])
    /\ UNCHANGED <<pc, invoked, result, exitCode, banner, skipTest, roleExists,
                   policyFile, bucketLookup, putDocs, roleArn, imageUri,
                   agentId, agentArn, elapsed, chunkCount, completeResponse,
                   targetPage, testSessionId, testStream>>
    /\ UNCHANGED <<rerunPc, accountBuckets>>
    /\ UNCHANGED <<chatVars, agentVars, nameVars, clientVars, toolVars>>

NextRerun == RunUpdatePolicy \/ RunCreateEcrRepository

----------------------------------------------------------------------------
(* The programs are separate processes: each specification runs one of    *)
(* them and leaves the variables of the others at rest.                    *)

\* the deployment script starts; no chat client, no agent process
InitDeploy ==
    /\ pc = "check_prerequisites"
    /\ invoked = <<>>
    /\ result = [s \in StepSet |-> "none"]
    /\ calls = <<>>
    /\ exitCode = -1
    /\ banner = FALSE
    /\ skipTest \in BOOLEAN
    /\ roleExists \in BOOLEAN
    /\ repoExists \in BOOLEAN
    /\ policyFile \in PolicyFiles
    /\ bucketLookup = "none"
    /\ putDocs = <<>>
    /\ createdRepos = 0
    /\ roleArn = None /\ repositoryUri = None /\ imageUri = None
    /\ agentId = None /\ agentArn = None
    /\ elapsed = 0
    /\ chunkCount = 0 /\ completeResponse = <<>> /\ targetPage = 0
    /\ testSessionId = <<>> /\ testStream = <<>>
    /\ chatPc = "returned_none" /\ stream = <<>> /\ pos = 0
    /\ in_tool_call = FALSE /\ tool_buffer = <<>> /\ complete_text = <<>>
    /\ console = <<>> /\ fates = <<>>
    /\ rpc = [r \in Requests |-> "done"]
    /\ kind = [r \in Requests |-> "stream"]
    /\ prompt = [r \in Requests |-> Missing]
    /\ yielded = [r \in Requests |-> <<>>]
    /\ produced = [r \in Requests |-> <<>>]
    /\ agentRaised = [r \in Requests |-> FALSE]
    /\ entered = [r \in Requests |-> FALSE]
    /\ mcpSession = {} /\ agentLoaded = "ready"
    /\ namePc = "idle" /\ original_name = <<>> /\ args_agent_name = <<>>
    /\ passedName = <<>>
    /\ clientPc = "idle" /\ chat_agent_name = None
    /\ regionRuntimes = <<>> /\ agent_runtime_arn = None
    /\ clientCalls = <<>> /\ clientExit = -1 /\ clientWarned = FALSE
    /\ turns = 0 /\ session_id = <<>> /\ inputs = <<>> /\ sent = <<>>
    /\ toolPc = "idle" /\ tools = <<>> /\ tool_names = <<>>
    /\ rerunPc = "idle" /\ accountBuckets = <<>> /\ runs = <<>>

\* the chat client is about to render a response
InitChat ==
    /\ pc = "exited" /\ invoked = <<>> /\ result = [s \in StepSet |-> "none"]
    /\ calls = <<>> /\ exitCode = -1 /\ banner = FALSE /\ skipTest = FALSE
    /\ roleExists = FALSE /\ repoExists = FALSE /\ policyFile = <<>>
    /\ bucketLookup = "none" /\ putDocs = <<>> /\ createdRepos = 0
    /\ roleArn = None /\ repositoryUri = None /\ imageUri = None
    /\ agentId = None /\ agentArn = None /\ elapsed = 0
    /\ chunkCount = 0 /\ completeResponse = <<>> /\ targetPage = 0
    /\ testSessionId = <<>> /\ testStream = <<>>
    /\ chatPc = "start"
    /\ stream \in Streams
    /\ pos = 0
    /\ in_tool_call = FALSE
    /\ tool_buffer = <<>>
    /\ complete_text = <<>>
    /\ console = <<>>
    /\ fates = <<>>
    /\ rpc = [r \in Requests |-> "done"]
    /\ kind = [r \in Requests |-> "stream"]
    /\ prompt = [r \in Requests |-> Missing]
    /\ yielded = [r \in Requests |-> <<>>]
    /\ produced = [r \in Requests |-> <<>>]
    /\ agentRaised = [r \in Requests |-> FALSE]
    /\ entered = [r \in Requests |-> FALSE]
    /\ mcpSession = {} /\ agentLoaded = "ready"
    /\ namePc = "idle" /\ original_name = <<>> /\ args_agent_name = <<>>
    /\ passedName = <<>>
    /\ clientPc = "idle" /\ chat_agent_name = None
    /\ regionRuntimes = <<>> /\ agent_runtime_arn = None
    /\ clientCalls = <<>> /\ clientExit = -1 /\ clientWarned = FALSE
    /\ turns = 0 /\ session_id = <<>> /\ inputs = <<>> /\ sent = <<>>
    /\ toolPc = "idle" /\ tools = <<>> /\ tool_names = <<>>
    /\ rerunPc = "idle" /\ accountBuckets = <<>> /\ runs = <<>>

\* the agent process has initialised its globals and waits for requests
InitAgent ==
    /\ pc = "exited" /\ invoked = <<>> /\ result = [s \in StepSet |-> "none"]
    /\ calls = <<>> /\ exitCode = -1 /\ banner = FALSE /\ skipTest = FALSE
    /\ roleExists = FALSE /\ repoExists = FALSE /\ policyFile = <<>>
    /\ bucketLookup = "none" /\ putDocs = <<>> /\ createdRepos = 0
    /\ roleArn = None /\ repositoryUri = None /\ imageUri = None
    /\ agentId = None /\ agentArn = None /\ elapsed = 0
    /\ chunkCount = 0 /\ completeResponse = <<>> /\ targetPage = 0
    /\ testSessionId = <<>> /\ testStream = <<>>
    /\ chatPc = "returned_none" /\ stream = <<>> /\ pos = 0
    /\ in_tool_call = FALSE /\ tool_buffer = <<>> /\ complete_text = <<>>
    /\ console = <<>> /\ fates = <<>>
    /\ rpc = [r \in Requests |-> "idle"]
    /\ kind = [r \in Requests |-> "stream"]
    /\ prompt = [r \in Requests |-> Missing]
    /\ yielded = [r \in Requests |-> <<>>]
    /\ produced = [r \in Requests |-> <<>>]
    /\ agentRaised = [r \in Requests |-> FALSE]
    /\ entered = [r \in Requests |-> FALSE]
    /\ mcpSession = {} /\ agentLoaded = "loading"
    /\ namePc = "idle" /\ original_name = <<>> /\ args_agent_name = <<>>
    /\ passedName = <<>>
    /\ clientPc = "idle" /\ chat_agent_name = None
    /\ regionRuntimes = <<>> /\ agent_runtime_arn = None
    /\ clientCalls = <<>> /\ clientExit = -1 /\ clientWarned = FALSE
    /\ turns = 0 /\ session_id = <<>> /\ inputs = <<>> /\ sent = <<>>
    /\ toolPc = "idle" /\ tools = <<>> /\ tool_names = <<>>
    /\ rerunPc = "idle" /\ accountBuckets = <<>> /\ runs = <<>>

\* main() has parsed its arguments
InitName ==
    /\ pc = "exited" /\ invoked = <<>> /\ result = [s \in StepSet |-> "none"]
    /\ calls = <<>> /\ exitCode = -1 /\ banner = FALSE /\ skipTest = FALSE
    /\ roleExists = FALSE /\ repoExists = FALSE /\ policyFile = <<>>
    /\ bucketLookup = "none" /\ putDocs = <<>> /\ createdRepos = 0
    /\ roleArn = None /\ repositoryUri = None /\ imageUri = None
    /\ agentId = None /\ agentArn = None /\ elapsed = 0
    /\ chunkCount = 0 /\ completeResponse = <<>> /\ targetPage = 0
    /\ testSessionId = <<>> /\ testStream = <<>>
    /\ chatPc = "returned_none" /\ stream = <<>> /\ pos = 0
    /\ in_tool_call = FALSE /\ tool_buffer = <<>> /\ complete_text = <<>>
    /\ console = <<>> /\ fates = <<>>
    /\ rpc = [r \in Requests |-> "done"]
    /\ kind = [r \in Requests |-> "stream"]
    /\ prompt = [r \in Requests |-> Missing]
    /\ yielded = [r \in Requests |-> <<>>]
    /\ produced = [r \in Requests |-> <<>>]
    /\ agentRaised = [r \in Requests |-> FALSE]
    /\ entered = [r \in Requests |-> FALSE]
    /\ mcpSession = {} /\ agentLoaded = "ready"
    /\ namePc = "parsed"
    /\ original_name \in Names
    /\ args_agent_name = original_name
    /\ passedName = <<>>
    /\ clientPc = "idle" /\ chat_agent_name = None
    /\ regionRuntimes = <<>> /\ agent_runtime_arn = None
    /\ clientCalls = <<>> /\ clientExit = -1 /\ clientWarned = FALSE
    /\ turns = 0 /\ session_id = <<>> /\ inputs = <<>> /\ sent = <<>>
    /\ toolPc = "idle" /\ tools = <<>> /\ tool_names = <<>>
    /\ rerunPc = "idle" /\ accountBuckets = <<>> /\ runs = <<>>

\* the chat client's main() has parsed its arguments
InitClient ==
    /\ pc = "exited" /\ invoked = <<>> /\ result = [s \in StepSet |-> "none"]
    /\ calls = <<>> /\ exitCode = -1 /\ banner = FALSE /\ skipTest = FALSE
    /\ roleExists = FALSE /\ repoExists = FALSE /\ policyFile = <<>>
    /\ bucketLookup = "none" /\ putDocs = <<>> /\ createdRepos = 0
    /\ roleArn = None /\ repositoryUri = None /\ imageUri = None
    /\ agentId = None /\ agentArn = None /\ elapsed = 0
    /\ chunkCount = 0 /\ completeResponse = <<>> /\ targetPage = 0
    /\ testSessionId = <<>> /\ testStream = <<>>
    /\ chatPc = "returned_none" /\ stream = <<>> /\ pos = 0
    /\ in_tool_call = FALSE /\ tool_buffer = <<>> /\ complete_text = <<>>
    /\ console = <<>> /\ fates = <<>>
    /\ rpc = [r \in Requests |-> "done"]
    /\ kind = [r \in Requests |-> "stream"]
    /\ prompt = [r \in Requests |-> Missing]
    /\ yielded = [r \in Requests |-> <<>>]
    /\ produced = [r \in Requests |-> <<>>]
    /\ agentRaised = [r \in Requests |-> FALSE]
    /\ entered = [r \in Requests |-> FALSE]
    /\ mcpSession = {} /\ agentLoaded = "ready"
    /\ namePc = "idle" /\ original_name = <<>> /\ args_agent_name = <<>>
    /\ passedName = <<>>
    /\ clientPc = "main"
    /\ chat_agent_name \in ClientNames
    /\ regionRuntimes \in Listings
    /\ agent_runtime_arn = None
    /\ clientCalls = <<>>
    /\ clientExit = -1
    /\ clientWarned = FALSE
    /\ turns = 0 /\ session_id = <<>> /\ inputs = <<>> /\ sent = <<>>
    /\ toolPc = "idle" /\ tools = <<>> /\ tool_names = <<>>
    /\ rerunPc = "idle" /\ accountBuckets = <<>> /\ runs = <<>>

\* get_tool_names is called with a list of tools
InitTools ==
    /\ pc = "exited" /\ invoked = <<>> /\ result = [s \in StepSet |-> "none"]
    /\ calls = <<>> /\ exitCode = -1 /\ banner = FALSE /\ skipTest = FALSE
    /\ roleExists = FALSE /\ repoExists = FALSE /\ policyFile = <<>>
    /\ bucketLookup = "none" /\ putDocs = <<>> /\ createdRepos = 0
    /\ roleArn = None /\ repositoryUri = None /\ imageUri = None
    /\ agentId = None /\ agentArn = None /\ elapsed = 0
    /\ chunkCount = 0 /\ completeResponse = <<>> /\ targetPage = 0
    /\ testSessionId = <<>> /\ testStream = <<>>
    /\ chatPc = "returned_none" /\ stream = <<>> /\ pos = 0
    /\ in_tool_call = FALSE /\ tool_buffer = <<>> /\ complete_text = <<>>
    /\ console = <<>> /\ fates = <<>>
    /\ rpc = [r \in Requests |-> "done"]
    /\ kind = [r \in Requests |-> "stream"]
    /\ prompt = [r \in Requests |-> Missing]
    /\ yielded = [r \in Requests |-> <<>>]
    /\ produced = [r \in Requests |-> <<>>]
    /\ agentRaised = [r \in Requests |-> FALSE]
    /\ entered = [r \in Requests |-> FALSE]
    /\ mcpSession = {} /\ agentLoaded = "ready"
    /\ namePc = "idle" /\ original_name = <<>> /\ args_agent_name = <<>>
    /\ passedName = <<>>
    /\ clientPc = "idle" /\ chat_agent_name = None
    /\ regionRuntimes = <<>> /\ agent_runtime_arn = None
    /\ clientCalls = <<>> /\ clientExit = -1 /\ clientWarned = FALSE
    /\ turns = 0 /\ session_id = <<>> /\ inputs = <<>> /\ sent = <<>>
    /\ toolPc = "called"
    /\ tools \in SeqsUpTo(Tools, MaxTools)
    /\ tool_names = <<>>
    /\ rerunPc = "idle" /\ accountBuckets = <<>> /\ runs = <<>>

\* the steps are about to be called on an account and a policy file
InitRerun ==
    /\ pc = "exited" /\ invoked = <<>> /\ result = [s \in StepSet |-> "none"]
    /\ calls = <<>> /\ exitCode = -1 /\ banner = FALSE /\ skipTest = FALSE
    /\ roleExists = FALSE /\ repoExists \in BOOLEAN
    /\ policyFile \in PolicyFiles
    /\ bucketLookup = "none" /\ putDocs = <<>> /\ createdRepos = 0
    /\ roleArn = None /\ repositoryUri = None /\ imageUri = None
    /\ agentId = None /\ agentArn = None /\ elapsed = 0
    /\ chunkCount = 0 /\ completeResponse = <<>> /\ targetPage = 0
    /\ testSessionId = <<>> /\ testStream = <<>>
    /\ chatPc = "returned_none" /\ stream = <<>> /\ pos = 0
    /\ in_tool_call = FALSE /\ tool_buffer = <<>> /\ complete_text = <<>>
    /\ console = <<>> /\ fates = <<>>
    /\ rpc = [r \in Requests |-> "done"]
    /\ kind = [r \in Requests |-> "stream"]
    /\ prompt = [r \in Requests |-> Missing]
    /\ yielded = [r \in Requests |-> <<>>]
    /\ produced = [r \in Requests |-> <<>>]
    /\ agentRaised = [r \in Requests |-> FALSE]
    /\ entered = [r \in Requests |-> FALSE]
    /\ mcpSession = {} /\ agentLoaded = "ready"
    /\ namePc = "idle" /\ original_name = <<>> /\ args_agent_name = <<>>
    /\ passedName = <<>>
    /\ clientPc = "idle" /\ chat_agent_name = None
    /\ regionRuntimes = <<>> /\ agent_runtime_arn = None
    /\ clientCalls = <<>> /\ clientExit = -1 /\ clientWarned = FALSE
    /\ turns = 0 /\ session_id = <<>> /\ inputs = <<>> /\ sent = <<>>
    /\ toolPc = "idle" /\ tools = <<>> /\ tool_names = <<>>
    /\ rerunPc = "running"
    /\ accountBuckets \in SeqsUpTo(BucketNames, MaxBuckets)
    /\ runs = <<>>

\* the deployment script has reached its smoke test, and a chat client is
\* started against the region that lists the runtime
InitSessions ==
    /\ pc = "test"
    /\ invoked = <<"check_prerequisites", "update_policy_with_dynamic_bucket",
                   "ensure_iam_role_exists", "create_ecr_repository",
                   "build_and_push_docker_image", "deploy_to_agentcore",
                   "wait_for_agent_ready">>
    /\ result = [s \in StepSet |-> IF s = "test_agent" THEN "none" ELSE "ok"]
    /\ calls = <<Call("aws --version", "ok"),
                 Call("aws sts get-caller-identity", "ok"),
                 Call("docker --version", "ok"),
                 Call("docker buildx version", "ok"),
                 Call("s3.list_buckets", "ok"),
                 Call("sts.get_caller_identity", "ok"),
                 Call("iam.get_role", "ok"),
                 Call("iam.put_role_policy", "ok"),
                 Call("ecr.describe_repositories", "ok"),
                 Call("ecr.get_authorization_token", "ok"),
                 Call("docker login", "ok"),
                 Call("docker buildx build --push", "ok"),
                 Call("create_agent_runtime", "ok"),
                 CallArg("get_agent_runtime", "id_new", "ACTIVE")>>
    /\ exitCode = -1 /\ banner = FALSE /\ skipTest = FALSE
    /\ roleExists = TRUE /\ repoExists = TRUE
    /\ policyFile = <<"arn:aws:s3:::", "athenaresultsbucket-2", "/*">>
    /\ bucketLookup = "missing"
    /\ putDocs = <<policyFile>> /\ createdRepos = 0
    /\ roleArn = "role_arn" /\ repositoryUri = "repo_uri"
    /\ imageUri = "repo_uri:latest"
    /\ agentId = "id_new" /\ agentArn = "arn_new" /\ elapsed = 0
    /\ chunkCount = 0 /\ completeResponse = <<>> /\ targetPage = 0
    /\ testSessionId = <<>> /\ testStream = <<>>
    /\ chatPc = "returned_none" /\ stream = <<>> /\ pos = 0
    /\ in_tool_call = FALSE /\ tool_buffer = <<>> /\ complete_text = <<>>
    /\ console = <<>> /\ fates = <<>>
    /\ rpc = [r \in Requests |-> "done"]
    /\ kind = [r \in Requests |-> "stream"]
    /\ prompt = [r \in Requests |-> Missing]
    /\ yielded = [r \in Requests |-> <<>>]
    /\ produced = [r \in Requests |-> <<>>]
    /\ agentRaised = [r \in Requests |-> FALSE]
    /\ entered = [r \in Requests |-> FALSE]
    /\ mcpSession = {} /\ agentLoaded = "ready"
    /\ namePc = "idle" /\ original_name = <<>> /\ args_agent_name = <<>>
    /\ passedName = <<>>
    /\ clientPc = "main"
    /\ chat_agent_name = AgentName
    /\ regionRuntimes = <<<<AgentName>>>>
    /\ agent_runtime_arn = None
    /\ clientCalls = <<>>
    /\ clientExit = -1
    /\ clientWarned = FALSE
    /\ turns = 0 /\ session_id = <<>> /\ inputs = <<>> /\ sent = <<>>
    /\ toolPc = "idle" /\ tools = <<>> /\ tool_names = <<>>
    /\ rerunPc = "idle" /\ accountBuckets = <<>> /\ runs = <<>>

SpecDeploy == InitDeploy /\ [][NextDeploy]_vars

SpecChat == InitChat /\ [][NextChat]_vars

SpecAgent == InitAgent /\ [][NextAgent]_vars

SpecName == InitName /\ [][NextName]_vars

SpecClient == InitClient /\ [][NextClient]_vars

SpecTools == InitTools /\ [][NextTools]_vars

SpecRerun == InitRerun /\ [][NextRerun]_vars

\* the smoke test of the deployment script and one chat client, side by side
NextSessions == MainTestAgent \/ NextClient

SpecSessions == InitSessions /\ [][NextSessions]_vars

\* the deployment script keeps running: a poll that is due is made, and the
\* loop of wait_for_agent_ready is left when its range is used up
SpecDeployLive ==
    SpecDeploy /\ WF_vars(WaitPoll) /\ WF_vars(WaitTimeout)

----------------------------------------------------------------------------
(* Properties of the deployment script (SpecDeploy)                        *)

\* the steps after whose failure main() calls sys.exit(1)
HaltingSteps == {"check_prerequisites", "ensure_iam_role_exists",
                 "create_ecr_repository", "build_and_push_docker_image",
                 "deploy_to_agentcore"}

Invoked(s) == \E i \in 1..Len(invoked) : invoked[i] = s

\* C1 as stated: once any step has reported failure, no later step of the
\* sequence is invoked.
C1_HaltsAfterAnyFailure ==
    \A i \in 1..Len(invoked) :
        result[invoked[i]] = "fail" => i = Len(invoked)

\* C1 amended: a failure reported by check_prerequisites,
\* ensure_iam_role_exists, create_ecr_repository, build_and_push_docker_image,
\* deploy_to_agentcore or test_agent ends the run with no later step invoked;
\* a failure reported by wait_for_agent_ready does not: main() goes on to
\* test_agent unless --skip-test was given.
C1_HaltsAfterFailure ==
    /\ \A i \in 1..Len(invoked) :
         (result[invoked[i]] = "fail" /\ invoked[i] # "wait_for_agent_ready")
            => (i = Len(invoked) /\ pc = "exited")
    /\ (pc = "exited" /\ result["wait_for_agent_ready"] = "fail" /\ ~skipTest)
            => Invoked("test_agent")

C1_Witness ==
    /\ pc = "exited"
    /\ result["build_and_push_docker_image"] = "fail"
    /\ invoked[Len(invoked)] = "build_and_push_docker_image"

\* C2 as stated: whenever a step has reported failure the script exits with a
\* non-zero status and without the "Deployment Complete" banner.
C2_AnyFailureExitsNonZero ==
    (pc = "exited" /\ \E s \in StepSet : result[s] = "fail")
        => (exitCode # 0 /\ ~banner)

\* C2 amended: when check_prerequisites, ensure_iam_role_exists,
\* create_ecr_repository, build_and_push_docker_image or deploy_to_agentcore
\* reports failure the script exits with status 1 and prints no banner; when
\* none of them fails it prints the banner and ends with status 0, whatever
\* wait_for_agent_ready and test_agent reported.
C2_FailureExitStatus ==
    /\ (\E s \in HaltingSteps : result[s] = "fail")
          => (pc = "exited" /\ exitCode = 1 /\ ~banner)
    /\ (pc = "exited" /\ \A s \in HaltingSteps : result[s] # "fail")
          => (exitCode = 0 /\ banner)
    /\ (pc # "exited") => (exitCode = -1 /\ ~banner)

C2_Witness ==
    /\ pc = "exited"
    /\ result["deploy_to_agentcore"] = "fail"
    /\ exitCode = 1

\* C3 as stated: when no bucket matches or the bucket lookup fails, no IAM
\* role, registry, image or runtime step is executed afterwards.
C3_AbortsWhenBucketMissing ==
    bucketLookup \in {"missing", "error"}
        => ~Invoked("ensure_iam_role_exists")

\* C3 amended: when no bucket matches or the bucket lookup fails,
\* update_policy_with_dynamic_bucket reports success and leaves the policy
\* file as it was, and main() goes on to ensure_iam_role_exists.
C3_ContinuesWithoutBucket ==
    [][(bucketLookup = "none" /\ bucketLookup' \in {"missing", "error"})
         => /\ policyFile' = policyFile
            /\ result'["update_policy_with_dynamic_bucket"] = "ok"
            /\ pc' = "ensure_iam"
            /\ exitCode' = -1]_vars

C3_Witness ==
    /\ bucketLookup = "missing"
    /\ Invoked("ensure_iam_role_exists")

\* C4 as stated: after an external call has failed, the same call is never
\* issued again in the run.
C4_NoCallReissuedAfterFailure ==
    \A i, j \in 1..Len(calls) :
        (i < j /\ calls[i][3] = "fail") => calls[j][1] # calls[i][1]

\* C4 amended: after an external call other than wait_for_agent_ready's
\* get_agent_runtime has failed, the same call is never issued again in the
\* run; wait_for_agent_ready does poll get_agent_runtime again after a
\* status check raised, as long as fewer than max_minutes*2 polls were made.
NumPolls == Cardinality({i \in 1..Len(calls) : calls[i][1] = "get_agent_runtime"})

C4_NoRetryExceptPolling ==
    /\ \A i, j \in 1..Len(calls) :
         (i < j /\ calls[i][3] = "fail" /\ calls[i][1] # "get_agent_runtime")
            => calls[j][1] # calls[i][1]
    /\ NumPolls <= MaxMinutes * 2
    /\ (/\ calls # <<>>
        /\ calls[Len(calls)] = CallArg("get_agent_runtime", agentId, "fail")
        /\ NumPolls < MaxMinutes * 2)
          => (pc = "polling" /\ elapsed < MaxMinutes * 60)

C4_Witness ==
    \E i \in 1..Len(calls) :
        /\ i < Len(calls)
        /\ calls[i] = CallArg("get_agent_runtime", agentId, "fail")
        /\ calls[i + 1][1] = "get_agent_runtime"

\* C5: the steps are invoked in the fixed order of main(), each at most once
\* and none before all the steps that precede it.
C5_StepsInOrder ==
    /\ Len(invoked) <= Len(Steps)
    /\ \A i \in 1..Len(invoked) : invoked[i] = Steps[i]

C5_Witness ==
    /\ pc = "exited"
    /\ invoked = Steps

----------------------------------------------------------------------------
(* Properties of the chat client's renderer (SpecChat)                     *)

RECURSIVE Flatten(_)
Flatten(texts) ==
    IF texts = <<>> THEN <<>> ELSE Head(texts) \o Flatten(Tail(texts))

\* the text chunks carried by the 'data: ' lines among lines, in order
Fragments(lines) ==
    LET carrying == SelectSeq(lines, LAMBDA l : l[1] \in {"data", "json"})
    IN Flatten([i \in 1..Len(carrying) |-> TextChunk(carrying[i])])

\* the stream text the console shows: rendered chunks and the tool name and
\* parameters printed by _format_tool_call
RenderedText ==
    LET shown == SelectSeq(console,
                           LAMBDA item : item[1] \in {"text", "tool", "params"})
    IN Flatten([i \in 1..Len(shown) |-> shown[i][2]])

NotMarker(t) == t \notin {Open, Close}

\* C6: once stream_response has finished with an event stream, the text it
\* rendered is the in-order concatenation of the text fragments of the
\* stream's data lines (the markers themselves apart): none is dropped,
\* duplicated or reordered.
C6_RendersEveryFragment ==
    chatPc \in {"returned", "raised"}
        => RenderedText = SelectSeq(Fragments(stream), NotMarker)

\* tool-call content by the markers: a token is tool-call content exactly
\* when the last marker before it is an opening one
RECURSIVE ByMarkers(_, _)
ByMarkers(text, inside) ==
    IF text = <<>> THEN <<>>
    ELSE IF Head(text) = Open THEN ByMarkers(Tail(text), TRUE)
    ELSE IF Head(text) = Close THEN ByMarkers(Tail(text), FALSE)
    ELSE <<<<Head(text), IF inside THEN "tool" ELSE "text">>>>
         \o ByMarkers(Tail(text), inside)

\* C7: of the chunks consumed so far, stream_response has treated as
\* tool-call content exactly the text between an opening marker and the next
\* closing marker, and has rendered all other text as ordinary text.
C7_ToolContentExactlyBetweenMarkers ==
    fates = ByMarkers(Fragments(SubSeq(stream, 1, pos)), FALSE)

----------------------------------------------------------------------------
(* Properties of the agent entry points (SpecAgent)                        *)

\* what a request gets when it is the only request: a function of its own
\* payload and of what the agent did for it
OutcomeAlone(r) ==
    IF prompt[r] \in {Missing, ""} THEN <<ErrNoPrompt>>
    ELSE IF kind[r] = "stream"
         THEN produced[r] \o (IF agentRaised[r] THEN <<ErrStream>> ELSE <<>>)
         ELSE IF agentRaised[r] THEN <<ErrSync>> ELSE <<Success>>

\* C8: the outcome of a request that was handled to its end is the outcome it
\* has when handled alone, whatever other requests were or are being handled.
C8_OutcomeIndependentOfOtherRequests ==
    \A r \in Requests : rpc[r] = "done" => yielded[r] = OutcomeAlone(r)

\* C9: invoke_streaming called without a prompt, or with an empty one, yields
\* exactly one event, the no-prompt error event, and then ends; it neither
\* enters the MCP client session nor invokes the agent.
C9_NoPromptYieldsOneError ==
    \A r \in Requests :
        (kind[r] = "stream" /\ prompt[r] \in {Missing, ""}
              /\ rpc[r] \notin {"idle", "arrived"})
           => /\ yielded[r] = <<ErrNoPrompt>>
              /\ rpc[r] \in {"at_error", "done", "abandoned", "closed"}
              /\ ~entered[r] /\ r \notin mcpSession
              /\ produced[r] = <<>> /\ ~agentRaised[r]

C9_Witness ==
    \E r \in Requests :
        /\ kind[r] = "stream" /\ prompt[r] = Missing
        /\ rpc[r] = "done" /\ yielded[r] = <<ErrNoPrompt>>

\* C10: for a non-empty prompt, the events invoke_streaming has yielded are
\* the events the agent has produced, each once and in order, followed by at
\* most one error event of its own, and by none while the agent stream
\* succeeds; so the consumer has an event whenever the agent emitted one.
C10_ForwardsAgentEvents ==
    \A r \in Requests :
        (kind[r] = "stream" /\ prompt[r] \notin {Missing, ""})
           => /\ yielded[r] \in {produced[r], Append(produced[r], ErrStream)}
              /\ (entered[r] /\ ~agentRaised[r]) => yielded[r] = produced[r]
              /\ produced[r] # <<>> => yielded[r] # <<>>

C10_Witness ==
    \E r \in Requests :
        /\ kind[r] = "stream" /\ rpc[r] = "done" /\ ~agentRaised[r]
        /\ Len(produced[r]) >= 2 /\ produced[r][1] # produced[r][2]
        /\ yielded[r] = produced[r]

\* C11: invoke_streaming never leaves an exception to its consumer: when
\* entering the MCP session or the agent stream raises, the events already
\* yielded are followed by exactly one error event, which is the last event
\* of the stream, and the generator then ends.
C11_ExceptionBecomesLastEvent ==
    \A r \in Requests :
        (kind[r] = "stream" /\ prompt[r] \notin {Missing, ""}
              /\ rpc[r] \notin {"idle", "arrived"})
           => /\ (agentRaised[r] \/ ~entered[r])
                   => /\ yielded[r] = Append(produced[r], ErrStream)
                      /\ rpc[r] \in {"at_error", "done", "abandoned", "closed"}
              /\ \A i \in 1..Len(yielded[r]) :
                    yielded[r][i] = ErrStream => i = Len(yielded[r])
              /\ ~entered[r] => produced[r] = <<>>

C11_Witness ==
    \E r \in Requests :
        /\ kind[r] = "stream" /\ rpc[r] = "done" /\ agentRaised[r]
        /\ Len(produced[r]) >= 1
        /\ yielded[r] = Append(produced[r], ErrStream)

\* C12: invoke_sync always returns a dictionary whose status is success or
\* error: success, with the result, only for a non-empty prompt whose agent
\* call returned; a missing or empty prompt, or any exception, gives an error
\* dictionary, and for a missing or empty prompt the agent is not invoked.
\* (A call still blocked in agent(user_message) has returned nothing yet.)
C12_SyncReturnsStatus ==
    \A r \in Requests :
        (kind[r] = "sync" /\ rpc[r] \notin {"idle", "arrived", "running"})
           => /\ rpc[r] = "done"
              /\ yielded[r] \in {<<Success>>, <<ErrSync>>, <<ErrNoPrompt>>}
              /\ yielded[r] = <<Success>>
                   <=> /\ prompt[r] \notin {Missing, ""}
                       /\ entered[r] /\ ~agentRaised[r]
                       /\ produced[r] = <<"result">>
              /\ prompt[r] \in {Missing, ""}
                   => /\ yielded[r] = <<ErrNoPrompt>>
                      /\ ~entered[r] /\ produced[r] = <<>> /\ ~agentRaised[r]
              /\ agentRaised[r] => yielded[r] = <<ErrSync>>

C12_Witness ==
    /\ \E r \in Requests :
          /\ kind[r] = "sync" /\ rpc[r] = "done" /\ agentRaised[r]
          /\ yielded[r] = <<ErrSync>>
    /\ \E r \in Requests :
          /\ kind[r] = "sync" /\ rpc[r] = "done" /\ yielded[r] = <<Success>>

\* C13: for every --agent-name value given to the deployment script, the
\* empty string and names made only of invalid characters included, the
\* agent name passed to deploy_to_agentcore matches
\* [a-zA-Z][a-zA-Z0-9_]{0,47}.
C13_PassedNameMatchesPattern ==
    namePc = "deploying" => MatchesNamePattern(passedName)

\* C14 as stated: every policy document ensure_iam_role_exists sends with
\* put_role_policy is free of the bucket-name placeholder.
C14_PolicySentWithoutPlaceholder ==
    \A i \in 1..Len(putDocs) : ~Has(putDocs[i], Placeholder)

\* C14 amended: the document sent with put_role_policy is the policy file as
\* update_policy_with_dynamic_bucket left it; it is free of the placeholder
\* whenever a matching bucket was found.
C14_PlaceholderReplacedWhenBucketFound ==
    \A i \in 1..Len(putDocs) :
        /\ putDocs[i] = policyFile
        /\ bucketLookup = "found" => ~Has(putDocs[i], Placeholder)

C14_Witness ==
    /\ bucketLookup = "found"
    /\ putDocs # <<>>
    /\ Has(putDocs[1], "stack-AthenaResultsBucket-1")

\* the region's listing holds a runtime named as --agent-name
RuntimeListed == PageOf(regionRuntimes, AgentName) # 0

\* a call of the ARN lookup failed
LookupFailed ==
    \E i \in 1..Len(clientCalls) :
        /\ clientCalls[i][1] \in {"list_agent_runtimes", "get_agent_runtime"}
        /\ clientCalls[i][3] = "fail"

\* C15: constructing AgentChat obtains the ARN of the runtime named as
\* --agent-name whenever such a runtime exists in the region; otherwise (no
\* such runtime, or the lookup fails) the process exits with status 1 before
\* any invoke_agent_runtime call is made.
C15_ResolvesRuntimeByName ==
    (clientPc \notin {"main", "start"} /\ chat_agent_name = AgentName)
       => IF RuntimeListed /\ ~LookupFailed
          THEN agent_runtime_arn = ArnOf(IdOf(AgentName))
          ELSE /\ agent_runtime_arn = None
               /\ clientPc = "exited" /\ clientExit = 1
               /\ \A i \in 1..Len(clientCalls) :
                     clientCalls[i][1] # "invoke_agent_runtime"

\* the tool has a 'name' attribute, found by hasattr or in its instance
\* dictionary
HasNameAttribute(tool) ==
    tool[1] \in {"instance_attribute", "property", "dict_entry_only"}

\* C16: get_tool_names returns a list as long as its input and in the same
\* order, each element being the tool's 'name' attribute when the tool has
\* one and str(tool) otherwise; no tool is subscripted (the element of a
\* mapping is its str, not its 'name' entry) and the call returns for tools
\* that cannot be subscripted.
C16_NamesInOrder ==
    /\ toolPc \in {"called", "returned"}
    /\ toolPc = "returned"
         => /\ Len(tool_names) = Len(tools)
            /\ \A i \in 1..Len(tools) :
                  tool_names[i] = IF HasNameAttribute(tools[i])
                                  THEN tools[i][2] ELSE str(tools[i])

C16_Witness ==
    /\ toolPc = "returned"
    /\ Len(tools) = 2
    /\ tools[1][1] = "mapping" /\ tools[2][1] = "instance_attribute"
    /\ tools[1][2] # tools[2][2]
    /\ tool_names = <<str(tools[1]), tools[2][2]>>

\* positions of the status polls in the call log
PollIdx == {i \in 1..Len(calls) : calls[i][1] = "get_agent_runtime"}

\* C17: wait_for_agent_ready terminates after at most max_minutes*2 status
\* polls, whatever statuses and status-check errors the polls meet: it
\* returns True only if a poll observed ACTIVE or READY, returns False at the
\* first poll that observes FAILED, STOPPED or DELETING, and returns False
\* when the polls are used up.
C17_WaitTerminates ==
    /\ [](/\ NumPolls <= MaxMinutes * 2
          /\ pc = "polling"
               => /\ result["wait_for_agent_ready"] = "none"
                  /\ elapsed = 30 * NumPolls
          /\ \A i \in PollIdx :
               calls[i][3] \in ReadyStatuses \cup FailedStatuses
                  => /\ \A j \in PollIdx : j <= i
                     /\ pc # "polling"
                     /\ result["wait_for_agent_ready"] =
                           IF calls[i][3] \in ReadyStatuses THEN "ok" ELSE "fail"
          /\ result["wait_for_agent_ready"] = "ok"
               => \E i \in PollIdx : calls[i][3] \in ReadyStatuses
          /\ result["wait_for_agent_ready"] = "fail"
               => \/ \E i \in PollIdx : calls[i][3] \in FailedStatuses
                  \/ NumPolls = MaxMinutes * 2)
    /\ (pc = "polling") ~> (pc # "polling")

C17_Witness ==
    /\ result["wait_for_agent_ready"] = "fail"
    /\ NumPolls = MaxMinutes * 2
    /\ \E i \in PollIdx : calls[i][3] = "fail"
    /\ \A i \in PollIdx : calls[i][3] \notin FailedStatuses

\* positions in the call log of the calls with the given name
CallIdx(name) == {i \in 1..Len(calls) : calls[i][1] = name}

\* no listing or update call of deploy_to_agentcore failed
ListAndUpdateOk ==
    \A i \in 1..Len(calls) :
        calls[i][1] \in {"list_agent_runtimes", "list_agent_runtimes(nextToken)",
                         "update_agent_runtime"}
           => calls[i][3] # "fail"

\* C18: when create_agent_runtime reports a conflict and a runtime named
\* agent_name is on some page of the account's runtime listing,
\* deploy_to_agentcore finds it, calls update_agent_runtime on its id and
\* returns its id and ARN.
C18_UpdatesListedRuntimeOnConflict ==
    (targetPage # 0 /\ ListAndUpdateOk)
       => /\ \E i \in CallIdx("update_agent_runtime") :
                calls[i][2] = IdOf(AgentName)
          /\ agentId = IdOf(AgentName)
          /\ agentArn = ArnOf(IdOf(AgentName))

\* C19: in one call of deploy_to_agentcore, create_agent_runtime is called
\* exactly once; update_agent_runtime is called at most once, only after
\* create reported a conflict and only with the id of a listed runtime named
\* agent_name; the call returns the id and ARN of the successful create or
\* update response, or (None, None), never one without the other.
C19_CreateOnceUpdateAfterConflict ==
    /\ Cardinality(CallIdx("create_agent_runtime")) =
          IF Invoked("deploy_to_agentcore") THEN 1 ELSE 0
    /\ Cardinality(CallIdx("update_agent_runtime")) <= 1
    /\ \A u \in CallIdx("update_agent_runtime") :
          /\ \E c \in CallIdx("create_agent_runtime") :
                c < u /\ calls[c][3] = "conflict"
          /\ targetPage # 0
          /\ calls[u][2] = IdOf(AgentName)
    /\ (agentId = None) <=> (agentArn = None)
    /\ agentId # None
          => /\ agentArn = ArnOf(agentId)
             /\ \/ \E c \in CallIdx("create_agent_runtime") :
                       calls[c][3] = "ok" /\ agentId = "id_new"
                \/ \E u \in CallIdx("update_agent_runtime") :
                       calls[u][3] = "ok" /\ agentId = calls[u][2]
    /\ (Invoked("deploy_to_agentcore") /\ agentId = None)
          => \A i \in CallIdx("create_agent_runtime")
                       \cup CallIdx("update_agent_runtime") :
                calls[i][3] # "ok"

C19_Witness ==
    /\ \E c \in CallIdx("create_agent_runtime") : calls[c][3] = "conflict"
    /\ \E u \in CallIdx("update_agent_runtime") : calls[u][3] = "ok"
    /\ targetPage = 2
    /\ agentId = IdOf(AgentName) /\ agentArn = ArnOf(agentId)

\* the calls ensure_iam_role_exists issues
IamCalls == {"sts.get_caller_identity", "iam.get_role", "iam.create_role",
             "iam.put_role_policy"}

\* C20: ensure_iam_role_exists calls create_role only if get_role reported
\* that the role does not exist; it calls put_role_policy on the
\* existing-role and on the created-role path, and only once the role
\* exists; it returns an ARN only if the role exists and put_role_policy
\* succeeded, and None on any failure.
C20_RoleThenPolicy ==
    /\ \A c \in CallIdx("iam.create_role") :
          c > 1 /\ calls[c - 1] = Call("iam.get_role", "NoSuchEntity")
    /\ \A p \in CallIdx("iam.put_role_policy") :
          /\ roleExists
          /\ p > 1
          /\ calls[p - 1] \in {Call("iam.get_role", "ok"),
                               Call("iam.create_role", "ok")}
    /\ \A i \in 1..Len(calls) :
          calls[i] \in {Call("iam.get_role", "ok"), Call("iam.create_role", "ok")}
             => /\ i < Len(calls)
                /\ calls[i + 1][1] = "iam.put_role_policy"
    /\ roleArn # None
          => /\ roleExists
             /\ \E p \in CallIdx("iam.put_role_policy") : calls[p][3] = "ok"
    /\ (\E i \in 1..Len(calls) : calls[i][1] \in IamCalls /\ calls[i][3] = "fail")
          => /\ roleArn = None
             /\ result["ensure_iam_role_exists"] = "fail"

C20_Witness ==
    /\ \E c \in CallIdx("iam.create_role") : calls[c][3] = "ok"
    /\ \E p \in CallIdx("iam.put_role_policy") : calls[p][3] = "ok"
    /\ roleArn # None /\ roleExists

----------------------------------------------------------------------------
(* Properties of the steps called repeatedly (SpecRerun)                   *)

EcrRuns == {i \in 1..Len(runs) : runs[i].step = "create_ecr_repository"}

Creates(run) ==
    {k \in 1..Len(run.calls) : run.calls[k][1] = "ecr.create_repository"}

\* C21: create_ecr_repository is idempotent.  In every call of it,
\* create_repository is called only right after describe_repositories
\* reported the repository missing; and a call made after a call that
\* returned a repository URI issues no create_repository, leaves the
\* repository in place, and returns that same URI whenever
\* describe_repositories answers.
C21_CreateEcrRepositoryIdempotent ==
    /\ \A i \in EcrRuns : \A k \in Creates(runs[i]) :
           /\ k = 2
           /\ runs[i].calls[1] =
                  Call("ecr.describe_repositories", "RepositoryNotFound")
           /\ ~runs[i].before
    /\ \A i \in EcrRuns : \A j \in EcrRuns :
           (i < j /\ runs[i].ret # None) =>
               /\ Creates(runs[j]) = {}
               /\ runs[j].before /\ runs[j].after
               /\ runs[j].calls[1][3] = "ok" => runs[j].ret = runs[i].ret
               /\ runs[j].ret # None => runs[j].ret = runs[i].ret
    /\ createdRepos <= 1

\* the repository was missing, the first call created it, and a second call
\* found it there and returned its URI
C21_Witness ==
    \E i \in EcrRuns : \E j \in EcrRuns :
        /\ i < j
        /\ ~runs[i].before /\ Creates(runs[i]) # {} /\ runs[i].ret # None
        /\ runs[j].ret = runs[i].ret
        /\ Creates(runs[j]) = {}

PolicyRuns == {i \in 1..Len(runs) : runs[i].step = "update_policy"}

Matching == {m \in 1..Len(accountBuckets) :
                 IsAthenaResultsBucket(accountBuckets[m])}

\* C22: update_policy_with_dynamic_bucket leaves the policy file as it was
\* when no bucket name contains 'athenaresultsbucket' or list_buckets
\* failed; when a bucket matched, every placeholder of the file is replaced
\* by the first matching bucket of the listing and nothing else changes;
\* and every later call leaves the file as that call left it.
C22_PolicyFileRewrittenOnce ==
    /\ \A i \in PolicyRuns :
           /\ runs[i].ret \in {"error", "missing", "found"}
           /\ runs[i].calls[1][3] = "fail" <=> runs[i].ret = "error"
           /\ (Matching = {} /\ runs[i].ret # "error") <=>
                  runs[i].ret = "missing"
           /\ runs[i].ret # "found" => runs[i].after = runs[i].before
           /\ runs[i].ret = "found" =>
                  /\ Len(runs[i].after) = Len(runs[i].before)
                  /\ \A k \in 1..Len(runs[i].before) :
                         IF runs[i].before[k] = Placeholder
                         THEN \E m \in Matching :
                                  /\ \A n \in Matching : m <= n
                                  /\ runs[i].after[k] = accountBuckets[m]
                         ELSE runs[i].after[k] = runs[i].before[k]
    /\ \A i \in PolicyRuns : \A j \in PolicyRuns :
           (i < j /\ runs[i].ret = "found") =>
               runs[j].after = runs[i].after

\* two buckets match, the file held the placeholder twice, the first call
\* replaced both, and a second call that found the bucket again left the
\* file alone
C22_Witness ==
    \E i \in PolicyRuns : \E j \in PolicyRuns :
        /\ i < j
        /\ Cardinality(Matching) = 2
        /\ runs[i].ret = "found" /\ runs[j].ret = "found"
        /\ Cardinality({k \in 1..Len(runs[i].before) :
                            runs[i].before[k] = Placeholder}) = 2
        /\ runs[i].after # runs[i].before
        /\ runs[j].after = runs[i].after
        /\ policyFile = runs[i].after

----------------------------------------------------------------------------
(* Properties of test_agent (SpecDeploy)                                   *)

\* the text of every chunk, in arrival order
AllText(chunks) == [k \in 1..Len(chunks) |-> chunks[k][2]]

\* C23: once test_agent has read the response stream, complete_response is
\* the concatenation, in arrival order, of every chunk of the stream, and
\* chunk_count is the number of chunks: no counted chunk is missing from
\* complete_response.
C23_ResponseIsEveryChunk ==
    (Invoked("test_agent") /\ testStream # <<>>) =>
        /\ chunkCount = Len(testStream)
        /\ completeResponse = AllText(testStream)

----------------------------------------------------------------------------
(* Properties of the session ids (SpecSessions)                            *)

\* "must be 33+ characters"
MinSessionIdLen == 33

SessionIdsSound ==
    /\ \A k \in 1..Len(sent) : sent[k][1] = session_id
    /\ clientPc \in {"ready", "sending"} => session_id # <<>>
    /\ session_id # <<>> => Len(session_id) >= MinSessionIdLen
    /\ Invoked("test_agent") => Len(testSessionId) >= MinSessionIdLen

\* C24: every request of one AgentChat run carries the session id drawn at
\* construction, which is not changed once it is set; and the session id of
\* the chat client and the one of the deployment smoke test are at least 33
\* characters long.
C24_OneSessionIdOfValidLength ==
    /\ []SessionIdsSound
    /\ [][session_id # <<>> => session_id' = session_id]_vars

\* the client sent two requests under its id of exactly the minimum length,
\* and the smoke test made its call under a longer one
C24_Witness ==
    /\ Len(sent) = 2
    /\ sent[1][1] = session_id /\ sent[2][1] = session_id
    /\ Len(session_id) = MinSessionIdLen
    /\ Invoked("test_agent") /\ Len(testSessionId) > MinSessionIdLen

----------------------------------------------------------------------------
(* Properties of chat_loop (SpecClient)                                    *)

\* the input ends the loop: input() raised, or the stripped line is an exit
\* command in any letter case
EndsLoop(in) == in \in InputEnds \/ Lower(StripLine(in)) \in ExitCommands

\* the prompts a sequence of inputs calls for: the stripped non-empty lines
\* before the first input that ends the loop
RECURSIVE ExpectedPrompts(_)
ExpectedPrompts(ins) ==
    IF ins = <<>> THEN <<>>
    ELSE IF EndsLoop(Head(ins)) THEN <<>>
    ELSE IF StripLine(Head(ins)) = <<>> THEN ExpectedPrompts(Tail(ins))
    ELSE <<StripLine(Head(ins))>> \o ExpectedPrompts(Tail(ins))

InvokeCalls ==
    {k \in 1..Len(clientCalls) : clientCalls[k][1] = "invoke_agent_runtime"}

\* C25: in chat_loop, the invoke_agent_runtime calls made are, in order,
\* one per input that is non-empty after stripping and is not an exit
\* command; empty inputs cause none; and an exit command ('quit', 'exit',
\* 'bye', 'q' in any case) or the end of input is the last input read: the
\* loop has ended and nothing is called after it.
C25_OneCallPerMessage ==
    /\ [k \in 1..Len(sent) |-> sent[k][2]] = ExpectedPrompts(inputs)
    /\ Cardinality(InvokeCalls) = Len(sent)
    /\ \A i \in 1..Len(inputs) :
           EndsLoop(inputs[i]) =>
               /\ i = Len(inputs)
               /\ clientPc = "exited" /\ clientExit = 0

\* a blank line was skipped, a padded line that begins with an exit word was
\* sent stripped and its response rendered to the end, and an upper-case exit
\* command ended the loop
C25_Witness ==
    /\ Len(inputs) = 3
    /\ StripLine(inputs[1]) = <<>> /\ inputs[1] # <<>>
    /\ inputs[2] # StripLine(inputs[2])
    /\ inputs[3] \notin ExitCommands /\ Lower(inputs[3]) \in ExitCommands
    /\ Len(sent) = 1 /\ sent[1][2] = StripLine(inputs[2])
    /\ Cardinality(InvokeCalls) = 1
    /\ chatPc = "returned" /\ pos = Len(stream) /\ complete_text # <<>>
    /\ clientPc = "exited"

----------------------------------------------------------------------------
(* stream_response after a tool call (SpecChat)                            *)

Carries(i) == stream[i][1] \in {"data", "json"}

\* the consumed lines whose chunk took the closing-marker branch
ClosingChunks ==
    {i \in 1..pos : /\ Carries(i)
                    /\ Has(TextChunk(stream[i]), Close)
                    /\ ~Has(TextChunk(stream[i]), Open)}

\* the consumed lines after line i up to line j that carry a marker
MarkersBetween(i, j) ==
    {k \in (i + 1)..j : /\ Carries(k)
                        /\ \/ Has(TextChunk(stream[k]), Open)
                           \/ Has(TextChunk(stream[k]), Close)}

\* C26: after stream_response has processed a chunk with the closing
\* '</tool_call>' marker it goes on reading the stream: it has not been left
\* by an exception, it is out of tool-call mode until the next marker, and
\* the chunks that follow up to the next marker are rendered as regular
\* text.
C26_ResumesAfterToolCall ==
    \A i \in ClosingChunks :
        /\ chatPc # "raised"
        /\ MarkersBetween(i, pos) = {} => ~in_tool_call
        /\ \A j \in (i + 1)..pos :
               (Carries(j) /\ MarkersBetween(i, j) = {}) =>
                   \E c \in 1..Len(console) :
                       console[c] = <<"text", TextChunk(stream[j])>>

====
